---- MODULE Spec2Model ----
(***************************************************************************)
(* Model of the flight tracker's map view (src/src/components/FlightMap.tsx): *)
(* the FlightMap component, its refs, its two effects, the map's 'load'     *)
(* handler and the projection of a flight list to the 'routes' and          *)
(* 'airports' GeoJSON sources.                                              *)
(***************************************************************************)
EXTENDS Integers, Sequences, FiniteSets, TLC

VARIABLES
    pc,                 \* position of the component: before mount, in a commit's effect flush, idle, unmounted
    flights,            \* prop flights
    mapboxToken,        \* prop mapboxToken
    flightsChanged,     \* the flights dependency of effect 2 changed in the commit being flushed
    cleanupFn,          \* effect 1 returned a cleanup function on its last run
    map,                \* map.current: 0 is null, otherwise the index of a surface
    isMapLoaded,        \* isMapLoaded.current
    sourcesInitialized, \* sourcesInitialized.current
    pendingFlights,     \* pendingFlights.current
    surfaces,           \* every mapboxgl.Map created so far, in creation order
    ops,                \* the calls the latest handler made on surfaces
    lastBuffered,       \* <<L>> when snapshot L was buffered since the last teardown or write, else <<>>
    pushes,             \* 0: nothing pushed to the current map; 1: a snapshot pushed; 2: the same snapshot pushed again
    projIn,             \* input of the projection under test
    projOut,            \* <<>> before projection, <<route features>> after
    projAirports,       \* <<>> before projection, <<airport features>> after
    projStats,          \* <<>> before FlightStats rendered, <<its three numbers>> after
    projBreakdown,      \* <<>> before Index computed sortedAircraftStats, <<the entries>> after
    distIn,             \* the two coordinate pairs calculateDistance is applied to
    distForm,           \* <<>> before the add form computed the distance, <<miles>> after
    distDialog,         \* <<>> before the edit dialog computed the distance, <<miles>> after
    shareIn,            \* the flight list of the sharing session, as JSON values
    shareUrl,           \* shareUrl state: <<>> is the empty string
    shareToast,         \* the toast generateShareUrl showed, "" before it ran
    shareLoaded,        \* <<>> before the link is opened, <<flights>> of the opening session after its mount
    ipc,                \* position of Index: before mount, first commit done, idle, crashed
    indexFlights,       \* state flights of Index, a JS value
    indexToken,         \* state mapboxToken of Index
    queued,             \* the setFlights and setMapboxToken calls of the mount effect, applied by the next render
    lsFlights,          \* localStorage item flight-tracker-flights: <<>> is null, else <<text>>
    lsToken,            \* localStorage item of the token: "" is null
    search,             \* window.location.search
    formData,           \* formData of FlightForm
    editingFlight,      \* editingFlight: <<>> is null, else <<flight>>
    isEditDialogOpen,   \* isEditDialogOpen
    editFormData,       \* formData of EditFlightDialog
    now,                \* Date.now()
    toast,              \* the toast of the latest handler, "" when none
    called,             \* the callback the latest form submit invoked, "" when none
    opened              \* what the page was opened with: query string and the two localStorage items

vars == <<pc, flights, mapboxToken, flightsChanged, cleanupFn, map, isMapLoaded,
          sourcesInitialized, pendingFlights, surfaces, ops, lastBuffered, pushes,
          projIn, projOut, projAirports, projStats, projBreakdown,
          distIn, distForm, distDialog, shareIn, shareUrl, shareToast, shareLoaded,
          ipc, indexFlights, indexToken, queued, lsFlights, lsToken, search, formData,
          editingFlight, isEditDialogOpen, editFormData, now, toast, called, opened>>

----------------------------------------------------------------------------
(* Bounds *)

MaxSurfaces == 2    \* surfaces created in one behaviour
MaxSignals == 3     \* 'load' deliveries in one behaviour
MaxSnap == 1        \* length of a flights prop
MaxLen == 3         \* length of a projection input
MaxAirline == 3     \* length of a typed airline name
MaxFlights == 2     \* flights the add form may bring the list to
MaxTicks == 1       \* milliseconds that pass in one session

----------------------------------------------------------------------------
(* Data: flights as the Flight Store builds them from the airport table.    *)
(* Coordinates are [lon, lat] in units of 1e-4 degree.                      *)

JFK == <<-737781, 406413>>
LHR == <<-4543, 514700>>
CDG == <<25479, 490097>>

Flight(id, from, to, fromCoords, toCoords, date, aircraft, airline, distance) ==
    [id |-> id, from |-> from, to |-> to, fromCoords |-> fromCoords, toCoords |-> toCoords,
     date |-> date, aircraft |-> aircraft, airline |-> airline, distance |-> distance]

F1 == Flight("1", "JFK", "LHR", JFK, LHR, "2024-01-01", "Boeing 777", "BA", 3451)
F2 == Flight("2", "LHR", "CDG", LHR, CDG, "2024-02-01", "Airbus A320", "AF", 216)
F3 == Flight("3", "CDG", "JFK", CDG, JFK, "2024-03-01", "Boeing 777", "AF", 3635)
F4 == Flight("4", "JFK", "JFK", JFK, JFK, "2024-04-01", "Concorde", "BA", 0)

SnapFlights == {F1, F2}
AllFlights == {F1, F2, F3, F4}

SeqsUpTo(S, n) == UNION {[1..k -> S] : k \in 0..n}

Snapshots == SeqsUpTo(SnapFlights, MaxSnap)
FlightLists == SeqsUpTo(AllFlights, MaxLen)

Tokens == {"", "pk.a", "pk.b"}

----------------------------------------------------------------------------
(* Projection, as updateMapData computes it *)

RouteFeature(flight) ==
    [type |-> "Feature",
     properties |-> [flightId |-> flight.id, from |-> flight.from, to |-> flight.to,
                     airline |-> flight.airline, aircraft |-> flight.aircraft,
                     date |-> flight.date],
     geometry |-> [type |-> "LineString",
                   coordinates |-> <<flight.fromCoords, flight.toCoords>>]]

\* variant: features come out in reverse order
routeFeaturesReversed(currentFlights) ==
    [i \in 1..Len(currentFlights) |->
        RouteFeature(currentFlights[Len(currentFlights) + 1 - i])]

routeFeatures(currentFlights) ==
    [i \in 1..Len(currentFlights) |-> RouteFeature(currentFlights[i])]

AirportPair(flight) ==
    << [type |-> "Feature",
        properties |-> [airport |-> flight.from, type |-> "departure"],
        geometry |-> [type |-> "Point", coordinates |-> flight.fromCoords]],
       [type |-> "Feature",
        properties |-> [airport |-> flight.to, type |-> "arrival"],
        geometry |-> [type |-> "Point", coordinates |-> flight.toCoords]] >>

RECURSIVE airportFeatures(_)
airportFeatures(currentFlights) ==
    IF currentFlights = <<>> THEN <<>>
    ELSE AirportPair(Head(currentFlights)) \o airportFeatures(Tail(currentFlights))

\* variant: the last feature with the coordinates wins
findLastIndex(self, c) ==
    LET hits == {j \in 1..Len(self) :
                    /\ self[j].geometry.coordinates[1] = c[1]
                    /\ self[j].geometry.coordinates[2] = c[2]}
    IN  IF hits = {} THEN 0 ELSE CHOOSE j \in hits : \A k \in hits : j >= k

\* self.findIndex(a => a.coordinates[0] === c[0] && a.coordinates[1] === c[1])
findIndex(self, c) ==
    LET hits == {j \in 1..Len(self) :
                    /\ self[j].geometry.coordinates[1] = c[1]
                    /\ self[j].geometry.coordinates[2] = c[2]}
    IN  IF hits = {} THEN 0 ELSE CHOOSE j \in hits : \A k \in hits : j <= k

RECURSIVE FilterFrom(_, _)
FilterFrom(self, index) ==
    IF index > Len(self) THEN <<>>
    ELSE (IF index = findIndex(self, self[index].geometry.coordinates)
          THEN <<self[index]>> ELSE <<>>) \o FilterFrom(self, index + 1)

uniqueAirports(features) == FilterFrom(features, 1)

----------------------------------------------------------------------------
(* Surfaces (mapboxgl.Map instances) and the calls made on them *)

NewSurface == [alive |-> TRUE, signals |-> 0, layers |-> 0, handlers |-> 0,
               routes |-> <<>>, airports |-> <<>>]

Op(name, s, layer, data) == [op |-> name, s |-> s, layer |-> layer, data |-> data]

\* the refs of the component and the surfaces they point into, as one value
Refs == [map |-> map, isMapLoaded |-> isMapLoaded,
         sourcesInitialized |-> sourcesInitialized,
         pendingFlights |-> pendingFlights, surfaces |-> surfaces,
         ops |-> <<>>, lastBuffered |-> lastBuffered, pushes |-> pushes]

Store(st) ==
    /\ map' = st.map
    /\ isMapLoaded' = st.isMapLoaded
    /\ sourcesInitialized' = st.sourcesInitialized
    /\ pendingFlights' = st.pendingFlights
    /\ surfaces' = st.surfaces
    /\ ops' = st.ops
    /\ lastBuffered' = st.lastBuffered
    /\ pushes' = st.pushes

\* map.remove(): the surface and its sources are released
remove(surface) == [surface EXCEPT !.alive = FALSE, !.routes = <<>>, !.airports = <<>>]

\* mapInstance.getSource(id): the sources exist once the layers were added
getSource(st, mapInstance) == st.surfaces[mapInstance].layers > 0

\* bookkeeping of repeated pushes: the sources already show this projection
\* because an earlier push put it there
Repeat(mapInstance, routeData, airportData, st) ==
    IF /\ st.pushes >= 1
       /\ st.surfaces[mapInstance].routes = routeData
       /\ st.surfaces[mapInstance].airports = airportData
    THEN 2 ELSE 1

\* variant: the new features are added to the ones the sources already hold
pushFeaturesAppend(mapInstance, currentFlights, st) ==
    LET routeData   == routeFeatures(currentFlights)
        airportData == uniqueAirports(airportFeatures(currentFlights))
        found       == getSource(st, mapInstance)
    IN  [st EXCEPT
           !.surfaces[mapInstance].routes = IF found THEN @ \o routeData ELSE @,
           !.surfaces[mapInstance].airports = IF found THEN @ \o airportData ELSE @,
           !.ops = IF found
                   THEN @ \o << Op("setData", mapInstance, "routes", routeData),
                                Op("setData", mapInstance, "airports", airportData) >>
                   ELSE @,
           !.pushes = IF found THEN Repeat(mapInstance, routeData, airportData, st) ELSE @,
           !.pendingFlights = <<>>,
           !.lastBuffered = <<>>]

\* the ready branch of updateMapData: project, setData on both sources,
\* clear the pending buffer
pushFeatures(mapInstance, currentFlights, st) ==
    LET routeData   == routeFeatures(currentFlights)
        airportData == uniqueAirports(airportFeatures(currentFlights))
        found       == getSource(st, mapInstance)
    IN  [st EXCEPT
           !.surfaces[mapInstance].routes = IF found THEN routeData ELSE @,
           !.surfaces[mapInstance].airports = IF found THEN airportData ELSE @,
           !.ops = IF found
                   THEN @ \o << Op("setData", mapInstance, "routes", routeData),
                                Op("setData", mapInstance, "airports", airportData) >>
                   ELSE @,
           !.pushes = IF found THEN Repeat(mapInstance, routeData, airportData, st) ELSE @,
           !.pendingFlights = <<>>,
           !.lastBuffered = <<>>]

\* variant: an empty list is treated as nothing to draw and returns early
updateMapDataSkipEmpty(mapInstance, currentFlights, st) ==
    IF mapInstance = 0 \/ ~st.isMapLoaded \/ ~st.sourcesInitialized
    THEN [st EXCEPT !.pendingFlights = currentFlights,
                    !.lastBuffered = <<currentFlights>>]
    ELSE IF Len(currentFlights) = 0 THEN st
    ELSE pushFeatures(mapInstance, currentFlights, st)

updateMapData(mapInstance, currentFlights, st) ==
    IF mapInstance = 0 \/ ~st.isMapLoaded \/ ~st.sourcesInitialized
    THEN [st EXCEPT !.pendingFlights = currentFlights,
                    !.lastBuffered = <<currentFlights>>]
    ELSE pushFeatures(mapInstance, currentFlights, st)

\* registration of the two sources, two layers and four listeners
addSourcesAndLayers(mapInstance, st) ==
    [st EXCEPT
       !.surfaces[mapInstance].layers = @ + 2,
       !.surfaces[mapInstance].handlers = @ + 4,
       !.ops = Append(@, Op("addLayers", mapInstance, "", <<>>)),
       !.sourcesInitialized = TRUE,
       !.lastBuffered = <<>>]

\* variant: the pending snapshot is not processed after registration
initializeSourcesAndLayersNoPending(mapInstance, accepted, st) ==
    IF mapInstance = 0 \/ st.sourcesInitialized THEN st
    ELSE IF ~accepted THEN st
    ELSE addSourcesAndLayers(mapInstance, st)

\* variant: no 'already initialized' guard
initializeSourcesAndLayersNoGuard(mapInstance, accepted, st) ==
    IF mapInstance = 0 THEN st
    ELSE IF ~accepted THEN st
    ELSE LET s1 == addSourcesAndLayers(mapInstance, st)
         IN  IF Len(s1.pendingFlights) > 0
             THEN updateMapData(mapInstance, s1.pendingFlights, s1)
             ELSE s1

\* accepted: addSource succeeds; it throws 'Style is not done loading' on a
\* surface whose style has not loaded, and the handler is then abandoned
initializeSourcesAndLayers(mapInstance, accepted, st) ==
    IF mapInstance = 0 \/ st.sourcesInitialized THEN st
    ELSE IF ~accepted THEN st
    ELSE LET s1 == addSourcesAndLayers(mapInstance, st)
         IN  IF Len(s1.pendingFlights) > 0
             THEN updateMapData(mapInstance, s1.pendingFlights, s1)
             ELSE s1

\* the listener of map.current.on('load', ...), fired by surface s
onLoad(s, accepted, st) ==
    LET s1 == [st EXCEPT !.isMapLoaded = TRUE]
    IN  IF s1.map = 0 THEN s1
        ELSE initializeSourcesAndLayers(s1.map, accepted, s1)

\* variant: the token is not checked before the map is created
mapEffectNoTokenCheck(token, st) ==
    [st EXCEPT
       !.surfaces = Append(@, NewSurface),
       !.map = Len(st.surfaces) + 1,
       !.ops = Append(@, Op("create", Len(st.surfaces) + 1, "", <<>>))]

\* body of effect 1; the container ref is set once the component is mounted
mapEffect(token, st) ==
    IF token = "" THEN st
    ELSE [st EXCEPT
            !.surfaces = Append(@, NewSurface),
            !.map = Len(st.surfaces) + 1,
            !.ops = Append(@, Op("create", Len(st.surfaces) + 1, "", <<>>))]

\* variant: the map is removed but the refs are left as they were
mapCleanupKeepRefs(st) ==
    IF st.map # 0
    THEN [st EXCEPT !.surfaces[st.map] = remove(@),
                    !.ops = Append(@, Op("remove", st.map, "", <<>>))]
    ELSE st

\* variant: the pending buffer is not cleared
mapCleanupKeepPending(st) ==
    LET s1 == IF st.map # 0
              THEN [st EXCEPT !.surfaces[st.map] = remove(@),
                              !.ops = Append(@, Op("remove", st.map, "", <<>>)),
                              !.map = 0]
              ELSE st
    IN  [s1 EXCEPT !.isMapLoaded = FALSE,
                   !.sourcesInitialized = FALSE,
                   !.pushes = 0]

\* variant: the refs are reset but the map is not removed
mapCleanupNoRemove(st) ==
    [st EXCEPT !.map = 0,
               !.isMapLoaded = FALSE,
               !.sourcesInitialized = FALSE,
               !.pendingFlights = <<>>,
               !.lastBuffered = <<>>,
               !.pushes = 0]

\* the cleanup function effect 1 returns
mapCleanup(st) ==
    LET s1 == IF st.map # 0
              THEN [st EXCEPT !.surfaces[st.map] = remove(@),
                              !.ops = Append(@, Op("remove", st.map, "", <<>>)),
                              !.map = 0]
              ELSE st
    IN  [s1 EXCEPT !.isMapLoaded = FALSE,
                   !.sourcesInitialized = FALSE,
                   !.pendingFlights = <<>>,
                   !.lastBuffered = <<>>,
                   !.pushes = 0]

\* variant: a snapshot that cannot be applied yet is dropped
flightsEffectDrop(fl, st) ==
    IF st.map # 0 /\ st.isMapLoaded /\ st.sourcesInitialized
    THEN updateMapData(st.map, fl, st)
    ELSE st

\* body of effect 2
flightsEffect(fl, st) ==
    IF st.map # 0 /\ st.isMapLoaded /\ st.sourcesInitialized
    THEN updateMapData(st.map, fl, st)
    ELSE [st EXCEPT !.pendingFlights = fl, !.lastBuffered = <<fl>>]

----------------------------------------------------------------------------
(* Share link: JSON text, base64 and the query string, on UTF-16 code units *)
(* (src/src/pages/Index.tsx, generateShareUrl and the mount effect)         *)

\* the code units of the string literals that occur in a payload
Codes(str) ==
    CASE str = "flights" -> <<102, 108, 105, 103, 104, 116, 115>>
      [] str = "timestamp" -> <<116, 105, 109, 101, 115, 116, 97, 109, 112>>
      [] str = "from" -> <<102, 114, 111, 109>>
      [] str = "to" -> <<116, 111>>
      [] str = "fromCoords" -> <<102, 114, 111, 109, 67, 111, 111, 114, 100, 115>>
      [] str = "toCoords" -> <<116, 111, 67, 111, 111, 114, 100, 115>>
      [] str = "date" -> <<100, 97, 116, 101>>
      [] str = "aircraft" -> <<97, 105, 114, 99, 114, 97, 102, 116>>
      [] str = "airline" -> <<97, 105, 114, 108, 105, 110, 101>>
      [] str = "distance" -> <<100, 105, 115, 116, 97, 110, 99, 101>>
      [] str = "id" -> <<105, 100>>
      [] str = "JFK" -> <<74, 70, 75>>
      [] str = "LHR" -> <<76, 72, 82>>
      [] str = "CDG" -> <<67, 68, 71>>
      [] str = "2024-01-01" -> <<50, 48, 50, 52, 45, 48, 49, 45, 48, 49>>
      [] str = "2024-02-01" -> <<50, 48, 50, 52, 45, 48, 50, 45, 48, 49>>
      [] str = "2024-03-01" -> <<50, 48, 50, 52, 45, 48, 51, 45, 48, 49>>
      [] str = "2024-04-01" -> <<50, 48, 50, 52, 45, 48, 52, 45, 48, 49>>
      [] str = "Boeing 777" -> <<66, 111, 101, 105, 110, 103, 32, 55, 55, 55>>
      [] str = "Airbus A320" -> <<65, 105, 114, 98, 117, 115, 32, 65, 51, 50, 48>>
      [] str = "Concorde" -> <<67, 111, 110, 99, 111, 114, 100, 101>>
      [] str = "ATR 72" -> <<65, 84, 82, 32, 55, 50>>
      [] str = "AF" -> <<65, 70>>
      [] str = "BA" -> <<66, 65>>
      [] str = "1" -> <<49>>
      [] str = "2" -> <<50>>
      [] str = "3" -> <<51>>
      [] str = "4" -> <<52>>
      [] str = "WAW" -> <<87, 65, 87>>
      [] str = "2024-05-01T12:00:00.000Z" -> <<50, 48, 50, 52, 45, 48, 53, 45, 48, 49, 84, 49, 50, 58, 48, 48, 58, 48, 48, 46, 48, 48, 48, 90>>

\* JSON values; a number is kept in units of 1e-4
JStr(s) == [k |-> "string", s |-> s, n |-> 0, keys |-> <<>>, items |-> <<>>]
JNum(n) == [k |-> "number", s |-> <<>>, n |-> n, keys |-> <<>>, items |-> <<>>]
JArr(items) == [k |-> "array", s |-> <<>>, n |-> 0, keys |-> <<>>, items |-> items]
JObj(keys, items) == [k |-> "object", s |-> <<>>, n |-> 0, keys |-> keys, items |-> items]
JNull == [k |-> "null", s |-> <<>>, n |-> 0, keys |-> <<>>, items |-> <<>>]
SyntaxError == [k |-> "SyntaxError", s |-> <<>>, n |-> 0, keys |-> <<>>, items |-> <<>>]

\* decodedData.flights: the member of an object, undefined when absent
Undefined == [k |-> "undefined", s |-> <<>>, n |-> 0, keys |-> <<>>, items |-> <<>>]
Member(v, key) ==
    LET hits == {i \in 1..Len(v.keys) : v.keys[i] = key}
    IN  IF v.k = "object" /\ hits # {} THEN v.items[CHOOSE i \in hits : \A j \in hits : i >= j]
        ELSE Undefined

\* setFlights values are JS values: an array of flights, or whatever JSON.parse returned
IsArray(v) == v.k = "array"

\* the Flight object as addFlight builds it: the form's fields, then id
FlightValue(flight, airline) ==
    JObj(<<Codes("from"), Codes("to"), Codes("fromCoords"), Codes("toCoords"), Codes("date"),
           Codes("aircraft"), Codes("airline"), Codes("distance"), Codes("id")>>,
         <<JStr(Codes(flight.from)), JStr(Codes(flight.to)),
           JArr(<<JNum(flight.fromCoords[1]), JNum(flight.fromCoords[2])>>),
           JArr(<<JNum(flight.toCoords[1]), JNum(flight.toCoords[2])>>),
           JStr(Codes(flight.date)), JStr(Codes(flight.aircraft)), JStr(airline),
           JNum(flight.distance * 10000), JStr(Codes(flight.id))>>)

RECURSIVE Digits(_)
Digits(n) == IF n < 10 THEN <<48 + n>> ELSE Append(Digits(n \div 10), 48 + (n % 10))

RECURSIVE Fraction(_, _)
\* the decimals of f/10^w without trailing zeros
Fraction(f, w) ==
    IF f = 0 THEN <<>>
    ELSE IF f % 10 = 0 THEN Fraction(f \div 10, w - 1)
    ELSE [i \in 1..w |-> 48 + ((f \div (10 ^ (w - i))) % 10)]

\* Number to text: sign, integer part, and the decimals if any
NumberText(n) ==
    LET a == IF n < 0 THEN 0 - n ELSE n
        frac == Fraction(a % 10000, 4)
    IN  (IF n < 0 THEN <<45>> ELSE <<>>) \o Digits(a \div 10000)
        \o (IF frac = <<>> THEN <<>> ELSE <<46>> \o frac)

RECURSIVE Join(_)
Join(texts) ==
    IF texts = <<>> THEN <<>>
    ELSE IF Len(texts) = 1 THEN texts[1]
    ELSE texts[1] \o <<44>> \o Join(Tail(texts))

RECURSIVE stringify(_)
\* JSON.stringify; the strings of the model hold no character that needs an escape
stringify(v) ==
    CASE v.k = "string" -> <<34>> \o v.s \o <<34>>
      [] v.k = "number" -> NumberText(v.n)
      [] v.k = "array"  -> <<91>> \o Join([i \in 1..Len(v.items) |-> stringify(v.items[i])]) \o <<93>>
      [] v.k = "object" -> <<123>> \o Join([i \in 1..Len(v.items) |->
                                <<34>> \o v.keys[i] \o <<34, 58>> \o stringify(v.items[i])]) \o <<125>>
      [] OTHER -> <<110, 117, 108, 108>>

At(t, i) == IF i \in 1..Len(t) THEN t[i] ELSE 0

Parsed(v, i) == [ok |-> TRUE, v |-> v, i |-> i]
NotParsed == [ok |-> FALSE, v |-> SyntaxError, i |-> 0]

IsDigit(c) == c \in 48..57

\* the first index from i on that holds no digit
EndOfDigits(t, i) ==
    LET non == {j \in i..Len(t) : ~IsDigit(t[j])}
    IN  IF non = {} THEN Len(t) + 1 ELSE CHOOSE j \in non : \A m \in non : j <= m

RECURSIVE NumVal(_)
NumVal(ds) == IF ds = <<>> THEN 0 ELSE NumVal(SubSeq(ds, 1, Len(ds) - 1)) * 10 + (ds[Len(ds)] - 48)

\* a JSON number with at most four decimals
ParseNumber(t, i) ==
    LET start   == IF At(t, i) = 45 THEN i + 1 ELSE i
        intEnd  == EndOfDigits(t, start)
        hasFrac == At(t, intEnd) = 46
        fracEnd == IF hasFrac THEN EndOfDigits(t, intEnd + 1) ELSE intEnd
        d       == IF hasFrac THEN fracEnd - intEnd - 1 ELSE 0
        whole   == NumVal(SubSeq(t, start, intEnd - 1))
        frac    == IF hasFrac THEN NumVal(SubSeq(t, intEnd + 1, fracEnd - 1)) * (10 ^ (4 - d)) ELSE 0
        a       == whole * 10000 + frac
    IN  IF intEnd = start \/ (hasFrac /\ d \notin 1..4) THEN NotParsed
        ELSE Parsed(JNum(IF start > i THEN 0 - a ELSE a), fracEnd)

\* a JSON string from the character after its opening quote; a backslash
\* escape is outside the model and taken as not parseable
ParseString(t, i) ==
    LET closers == {j \in i..Len(t) : t[j] = 34}
        j       == CHOOSE c \in closers : \A m \in closers : c <= m
    IN  IF closers = {} THEN NotParsed
        ELSE IF \E m \in i..(j - 1) : t[m] = 92 \/ t[m] < 32 THEN NotParsed
        ELSE Parsed(JStr(SubSeq(t, i, j - 1)), j + 1)

RECURSIVE ParseValue(_, _)
RECURSIVE ParseElements(_, _, _)
RECURSIVE ParseMembers(_, _, _, _)

ParseElements(t, i, acc) ==
    LET r == ParseValue(t, i)
    IN  IF ~r.ok THEN NotParsed
        ELSE IF At(t, r.i) = 44 THEN ParseElements(t, r.i + 1, Append(acc, r.v))
        ELSE IF At(t, r.i) = 93 THEN Parsed(JArr(Append(acc, r.v)), r.i + 1)
        ELSE NotParsed

ParseMembers(t, i, keys, items) ==
    LET key == IF At(t, i) = 34 THEN ParseString(t, i + 1) ELSE NotParsed
        r   == IF key.ok /\ At(t, key.i) = 58 THEN ParseValue(t, key.i + 1) ELSE NotParsed
    IN  IF ~r.ok THEN NotParsed
        ELSE IF At(t, r.i) = 44
             THEN ParseMembers(t, r.i + 1, Append(keys, key.v.s), Append(items, r.v))
        ELSE IF At(t, r.i) = 125
             THEN Parsed(JObj(Append(keys, key.v.s), Append(items, r.v)), r.i + 1)
        ELSE NotParsed

ParseValue(t, i) ==
    LET c == At(t, i)
    IN  CASE c = 34 -> ParseString(t, i + 1)
          [] c = 91 -> IF At(t, i + 1) = 93 THEN Parsed(JArr(<<>>), i + 2)
                       ELSE ParseElements(t, i + 1, <<>>)
          [] c = 123 -> IF At(t, i + 1) = 125 THEN Parsed(JObj(<<>>, <<>>), i + 2)
                        ELSE ParseMembers(t, i + 1, <<>>, <<>>)
          [] c = 45 \/ IsDigit(c) -> ParseNumber(t, i)
          [] c = 110 -> IF SubSeq(t, i, i + 3) = <<110, 117, 108, 108>>
                        THEN Parsed(JNull, i + 4) ELSE NotParsed
          [] OTHER -> NotParsed

\* JSON.parse: the value, or SyntaxError when the text is not one JSON value
parse(t) ==
    LET r == ParseValue(t, 1)
    IN  IF r.ok /\ r.i = Len(t) + 1 THEN r.v ELSE SyntaxError

\* the base64 alphabet
B64Char(x) ==
    IF x < 26 THEN 65 + x
    ELSE IF x < 52 THEN 97 + (x - 26)
    ELSE IF x < 62 THEN 48 + (x - 52)
    ELSE IF x = 62 THEN 43 ELSE 47

B64Index(c) ==
    IF c \in 65..90 THEN c - 65
    ELSE IF c \in 97..122 THEN c - 97 + 26
    ELSE IF c \in 48..57 THEN c - 48 + 52
    ELSE IF c = 43 THEN 62
    ELSE IF c = 47 THEN 63 ELSE -1

\* three bytes to four characters, '=' for the characters without a byte
Base64(b) ==
    LET Byte(i) == IF i <= Len(b) THEN b[i] ELSE 0
        Char(j) ==
            LET g == (j - 1) \div 4
                p == (j - 1) % 4
                b1 == Byte(3 * g + 1)
                b2 == Byte(3 * g + 2)
                b3 == Byte(3 * g + 3)
            IN  CASE p = 0 -> B64Char(b1 \div 4)
                  [] p = 1 -> B64Char((b1 % 4) * 16 + b2 \div 16)
                  [] p = 2 -> IF 3 * g + 2 > Len(b) THEN 61
                              ELSE B64Char((b2 % 16) * 4 + b3 \div 64)
                  [] p = 3 -> IF 3 * g + 3 > Len(b) THEN 61 ELSE B64Char(b3 % 64)
    IN  [j \in 1..(4 * ((Len(b) + 2) \div 3)) |-> Char(j)]

Thrown == [ok |-> FALSE, s |-> <<>>]
Returned(s) == [ok |-> TRUE, s |-> s]

\* btoa: InvalidCharacterError when a code unit is above 255
btoa(text) ==
    IF \E i \in 1..Len(text) : text[i] > 255 THEN Thrown ELSE Returned(Base64(text))

\* sextets to bytes; the bits left over at the end are dropped
Unbase64(x) ==
    LET Octet(k) ==
            LET g == (k - 1) \div 3
                q == (k - 1) % 3
            IN  CASE q = 0 -> x[4 * g + 1] * 4 + x[4 * g + 2] \div 16
                  [] q = 1 -> (x[4 * g + 2] % 16) * 16 + x[4 * g + 3] \div 4
                  [] q = 2 -> (x[4 * g + 3] % 4) * 64 + x[4 * g + 4]
    IN  [k \in 1..((Len(x) * 3) \div 4) |-> Octet(k)]

NotSpace(c) == c \notin {9, 10, 12, 13, 32}

\* atob (forgiving-base64 decode): ASCII whitespace is dropped, padding is
\* removed only from a length that is a multiple of four
atob(data) ==
    LET d1 == SelectSeq(data, NotSpace)
        d2 == IF Len(d1) % 4 = 0 /\ Len(d1) > 0 /\ d1[Len(d1)] = 61
              THEN IF d1[Len(d1) - 1] = 61 THEN SubSeq(d1, 1, Len(d1) - 2)
                   ELSE SubSeq(d1, 1, Len(d1) - 1)
              ELSE d1
    IN  IF Len(d2) % 4 = 1 \/ \E i \in 1..Len(d2) : B64Index(d2[i]) = -1
        THEN Thrown
        ELSE Returned(Unbase64([i \in 1..Len(d2) |-> B64Index(d2[i])]))

\* window.location.origin + window.location.pathname
BaseUrl == <<104, 116, 116, 112, 115, 58, 47, 47, 102, 46, 97, 112, 112, 47>>

\* the '?data=' of the share link
DataParam == <<63, 100, 97, 116, 97, 61>>

\* window.location.search of a URL: from the first '?' on
Search(url) ==
    LET qs == {i \in 1..Len(url) : url[i] = 63}
    IN  IF qs = {} THEN <<>>
        ELSE SubSeq(url, CHOOSE i \in qs : \A j \in qs : i <= j, Len(url))

\* new URLSearchParams(search).get('data') for a search of one pair:
\* application/x-www-form-urlencoded parsing turns '+' into a space
SearchParamsGet(query) ==
    IF Len(query) >= Len(DataParam) /\ SubSeq(query, 1, Len(DataParam)) = DataParam
    THEN [i \in 1..(Len(query) - Len(DataParam)) |->
             IF query[i + Len(DataParam)] = 43 THEN 32 ELSE query[i + Len(DataParam)]]
    ELSE <<>>

----------------------------------------------------------------------------
(* Actions *)

propVars == <<flights, mapboxToken>>
stateVars == <<map, isMapLoaded, sourcesInitialized, pendingFlights, surfaces, lastBuffered, pushes>>
refVars == <<stateVars, ops>>
distVars == <<distIn, distForm, distDialog>>
statVars == <<projStats, projBreakdown>>
projVars == <<projIn, projOut, projAirports, statVars, distVars>>
shareVars == <<shareIn, shareUrl, shareToast, shareLoaded>>
storageVars == <<lsFlights, lsToken>>
formVars == <<formData, editingFlight, isEditDialogOpen, editFormData>>
storeVars == <<ipc, indexFlights, indexToken, queued, storageVars, search, formVars, now,
               toast, called, opened>>
restVars == <<projVars, shareVars, storeVars>>
mapVars == <<pc, propVars, flightsChanged, cleanupFn, refVars>>

CanCreate == Len(surfaces) < MaxSurfaces

RECURSIVE SignalsSent(_)
SignalsSent(ss) == IF ss = <<>> THEN 0 ELSE Head(ss).signals + SignalsSent(Tail(ss))

\* first render and commit: both effects are flushed, effect 1 first
Mount ==
    /\ pc = "init"
    /\ \E token \in Tokens, fl \in Snapshots :
          /\ mapboxToken' = token
          /\ flights' = fl
    /\ flightsChanged' = TRUE
    /\ pc' = "effect1"
    /\ ops' = <<>>
    /\ UNCHANGED <<cleanupFn, stateVars, restVars>>

\* a re-render with new props; effects whose dependency changed are flushed,
\* cleanups before bodies. A flights array with equal content but a new
\* identity also counts as changed.
Render ==
    /\ pc = "idle"
    /\ \E token \in Tokens, fl \in Snapshots, newArray \in BOOLEAN :
          /\ token # mapboxToken \/ newArray
          /\ fl # flights => newArray
          /\ (token # mapboxToken /\ token # "") => CanCreate
          /\ mapboxToken' = token
          /\ flights' = fl
          /\ flightsChanged' = newArray
          /\ pc' = IF token # mapboxToken
                   THEN (IF cleanupFn THEN "cleanup" ELSE "effect1")
                   ELSE "effect2"
    /\ ops' = <<>>
    /\ UNCHANGED <<cleanupFn, stateVars, restVars>>

Unmount ==
    /\ pc = "idle"
    /\ pc' = IF cleanupFn THEN "unmount" ELSE "gone"
    /\ ops' = <<>>
    /\ UNCHANGED <<propVars, flightsChanged, cleanupFn, stateVars, restVars>>

RunCleanup ==
    /\ pc \in {"cleanup", "unmount"}
    /\ Store(mapCleanup(Refs))
    /\ cleanupFn' = FALSE
    /\ pc' = IF pc = "unmount" THEN "gone" ELSE "effect1"
    /\ UNCHANGED <<propVars, flightsChanged, restVars>>

RunMapEffect ==
    /\ pc = "effect1"
    /\ Store(mapEffect(mapboxToken, Refs))
    /\ cleanupFn' = (mapboxToken # "")
    /\ pc' = IF flightsChanged THEN "effect2" ELSE "idle"
    /\ UNCHANGED <<propVars, flightsChanged, restVars>>

RunFlightsEffect ==
    /\ pc = "effect2"
    /\ Store(flightsEffect(flights, Refs))
    /\ pc' = "idle"
    /\ flightsChanged' = FALSE
    /\ UNCHANGED <<propVars, cleanupFn, restVars>>

\* surface s fires 'load'. The surface addressed by map.current accepts
\* addSource when it is s itself (its style has loaded); another surface may
\* or may not have its style loaded yet.
LoadSignal ==
    /\ pc \in {"idle", "gone"}
    /\ SignalsSent(surfaces) < MaxSignals
    /\ \E s \in 1..Len(surfaces) :
          /\ \E accepted \in (IF map = s THEN {TRUE} ELSE BOOLEAN) :
                LET st == onLoad(s, accepted, Refs)
                IN  Store([st EXCEPT !.surfaces[s].signals = @ + 1])
    /\ UNCHANGED <<pc, propVars, flightsChanged, cleanupFn, restVars>>

\* the component before its first render
MapInit ==
    /\ pc = "init"
    /\ flights = <<>>
    /\ mapboxToken = ""
    /\ flightsChanged = FALSE
    /\ cleanupFn = FALSE
    /\ map = 0
    /\ isMapLoaded = FALSE
    /\ sourcesInitialized = FALSE
    /\ pendingFlights = <<>>
    /\ surfaces = <<>>
    /\ ops = <<>>
    /\ lastBuffered = <<>>
    /\ pushes = 0

\* the parts of the state a specification does not exercise stay as they start
ProjIdle ==
    /\ projIn = <<>>
    /\ projOut = <<>>
    /\ projAirports = <<>>
    /\ projStats = <<>>
    /\ projBreakdown = <<>>

DistIdle ==
    /\ distIn = <<JFK, JFK>>
    /\ distForm = <<>>
    /\ distDialog = <<>>

ShareIdle ==
    /\ shareIn = <<>>
    /\ shareUrl = <<>>
    /\ shareToast = ""
    /\ shareLoaded = <<>>

DEFAULT_MAPBOX_TOKEN == "pk.default"

EmptyForm == [from |-> <<>>, to |-> <<>>, date |-> <<>>, aircraft |-> <<>>, airline |-> <<>>]

NothingQueued == [setFlights |-> <<>>, setMapboxToken |-> <<>>]

\* the clock at the start of the session, later than every id of an earlier session
StartClock == 5

\* Index and its forms before mount, with nothing to react to
StoreStart ==
    /\ ipc = "init"
    /\ indexFlights = JArr(<<>>)
    /\ indexToken = DEFAULT_MAPBOX_TOKEN
    /\ queued = NothingQueued
    /\ formData = EmptyForm
    /\ editingFlight = <<>>
    /\ isEditDialogOpen = FALSE
    /\ editFormData = EmptyForm
    /\ now = StartClock
    /\ toast = ""
    /\ called = ""

OpenedWith(locationSearch, savedFlights, savedToken) ==
    [search |-> locationSearch, lsFlights |-> savedFlights, lsToken |-> savedToken]

StoreIdle ==
    /\ StoreStart
    /\ lsFlights = <<>>
    /\ lsToken = ""
    /\ search = <<>>
    /\ opened = OpenedWith(<<>>, <<>>, "")

Init ==
    /\ MapInit
    /\ ProjIdle
    /\ DistIdle
    /\ ShareIdle
    /\ StoreIdle

Next ==
    \/ Mount
    \/ Render
    \/ Unmount
    \/ RunCleanup
    \/ RunMapEffect
    \/ RunFlightsEffect
    \/ LoadSignal

Spec == Init /\ [][Next]_vars

----------------------------------------------------------------------------
(* The projection on its own: every input list, projected once *)

InitProj ==
    /\ MapInit
    /\ projIn \in FlightLists
    /\ projOut = <<>>
    /\ projAirports = <<>>
    /\ projStats = <<>>
    /\ projBreakdown = <<>>
    /\ DistIdle
    /\ ShareIdle
    /\ StoreIdle

ProjectRoutes ==
    /\ projOut = <<>>
    /\ projOut' = <<routeFeatures(projIn)>>
    /\ UNCHANGED <<mapVars, shareVars, storeVars, projIn, projAirports, statVars, distVars>>

ProjectAirports ==
    /\ projAirports = <<>>
    /\ projAirports' = <<uniqueAirports(airportFeatures(projIn))>>
    /\ UNCHANGED <<mapVars, shareVars, storeVars, projIn, projOut, statVars, distVars>>

NextProj ==
    \/ ProjectRoutes
    \/ ProjectAirports

SpecProj == InitProj /\ [][NextProj]_vars

----------------------------------------------------------------------------
(* The statistics of FlightStats and the aircraft breakdown of Index *)

F5 == Flight("5", "LHR", "JFK", LHR, JFK, "2024-05-01", "ATR 72", "BA", 3443)

StatFlights == AllFlights \cup {F5}
StatLists == SeqsUpTo(StatFlights, MaxLen)

totalFlights(fl) == Len(fl)

RECURSIVE totalDistanceFrom(_, _)
\* flights.reduce((sum, flight) => sum + flight.distance, 0)
totalDistanceFrom(sum, fl) ==
    IF fl = <<>> THEN sum ELSE totalDistanceFrom(sum + Head(fl).distance, Tail(fl))

totalDistance(fl) == totalDistanceFrom(0, fl)

RECURSIVE aircraftStatsFrom(_, _)
\* the reduce over an object: its entries <<label, count>> in insertion order
aircraftStatsFrom(acc, fl) ==
    IF fl = <<>> THEN acc
    ELSE LET label == Head(fl).aircraft
             hits == {i \in 1..Len(acc) : acc[i][1] = label}
         IN  aircraftStatsFrom(
                 IF hits = {} THEN Append(acc, <<label, 1>>)
                 ELSE [i \in 1..Len(acc) |-> IF i \in hits THEN <<label, acc[i][2] + 1>> ELSE acc[i]],
                 Tail(fl))

aircraftStats(fl) == aircraftStatsFrom(<<>>, fl)

\* primary collation weight of a code unit: space, hyphen, digits, then
\* letters regardless of case
PrimaryWeight(c) ==
    IF c = 32 THEN 1
    ELSE IF c = 45 THEN 2
    ELSE IF c \in 48..57 THEN 10 + (c - 48)
    ELSE IF c \in 65..90 THEN 100 + (c - 65)
    ELSE IF c \in 97..122 THEN 100 + (c - 97)
    ELSE 200 + c

\* case weight: lower case sorts before upper case
CaseWeight(c) == IF c \in 65..90 THEN 1 ELSE 0

RECURSIVE CompareKeys(_, _)
\* negative, zero or positive as key x sorts before, with or after key y
CompareKeys(x, y) ==
    IF x = <<>> /\ y = <<>> THEN 0
    ELSE IF x = <<>> THEN 0 - 1
    ELSE IF y = <<>> THEN 1
    ELSE IF Head(x) # Head(y) THEN Head(x) - Head(y)
    ELSE CompareKeys(Tail(x), Tail(y))

\* String.prototype.localeCompare on labels of letters, digits, spaces and hyphens
localeCompare(a, b) ==
    LET ca == Codes(a)
        cb == Codes(b)
        primary == CompareKeys([i \in 1..Len(ca) |-> PrimaryWeight(ca[i])],
                               [i \in 1..Len(cb) |-> PrimaryWeight(cb[i])])
    IN  IF primary # 0 THEN primary
        ELSE CompareKeys([i \in 1..Len(ca) |-> CaseWeight(ca[i])],
                         [i \in 1..Len(cb) |-> CaseWeight(cb[i])])

\* variant: the counts are not compared
compareLabelsOnly(entryA, entryB) == localeCompare(entryA[1], entryB[1])

\* the comparator of sortedAircraftStats
compare(entryA, entryB) ==
    IF entryB[2] # entryA[2] THEN entryB[2] - entryA[2]
    ELSE localeCompare(entryA[1], entryB[1])

RECURSIVE InsertSorted(_, _)
\* entry placed behind every entry it does not sort before
InsertSorted(sorted, entry) ==
    IF sorted = <<>> THEN <<entry>>
    ELSE IF compare(entry, Head(sorted)) < 0 THEN <<entry>> \o sorted
    ELSE <<Head(sorted)>> \o InsertSorted(Tail(sorted), entry)

RECURSIVE Sort(_, _)
\* Array.prototype.sort with the comparator: a stable sort
Sort(sorted, entries) ==
    IF entries = <<>> THEN sorted
    ELSE Sort(InsertSorted(sorted, Head(entries)), Tail(entries))

sortedAircraftStats(fl) == Sort(<<>>, aircraftStats(fl))

InitStats ==
    /\ MapInit
    /\ projIn \in StatLists
    /\ projOut = <<>>
    /\ projAirports = <<>>
    /\ projStats = <<>>
    /\ projBreakdown = <<>>
    /\ DistIdle
    /\ ShareIdle
    /\ StoreIdle

\* FlightStats renders its three cards
RenderFlightStats ==
    /\ projStats = <<>>
    /\ projStats' = <<[totalFlights |-> totalFlights(projIn),
                       totalDistance |-> totalDistance(projIn),
                       aircraftTypes |-> Len(aircraftStats(projIn))]>>
    /\ UNCHANGED <<mapVars, shareVars, storeVars, projIn, projOut, projAirports,
                   projBreakdown, distVars>>

\* Index renders the aircraft breakdown
RenderBreakdown ==
    /\ projBreakdown = <<>>
    /\ projBreakdown' = <<sortedAircraftStats(projIn)>>
    /\ UNCHANGED <<mapVars, shareVars, storeVars, projIn, projOut, projAirports,
                   projStats, distVars>>

NextStats ==
    \/ RenderFlightStats
    \/ RenderBreakdown

SpecStats == InitStats /\ [][NextStats]_vars

----------------------------------------------------------------------------
(* The share link on its own: one session generates the link from its      *)
(* list, another session opens it                                          *)

AirlineChars == {65, 126, 248, 321}     \* A, ~, o with stroke, L with stroke

AirlineTexts == UNION {[1..k -> AirlineChars] : k \in 1..MaxAirline}

\* a flight with a typed airline name, alone or next to a second flight
ShareLists ==
    UNION {{ <<FlightValue(F1, a)>>,
             <<FlightValue(F1, a), FlightValue(F2, Codes(F2.airline))>>,
             <<FlightValue(F2, Codes(F2.airline)), FlightValue(F1, a)>> } : a \in AirlineTexts}

\* new Date().toISOString()
Timestamp == Codes("2024-05-01T12:00:00.000Z")

generateShareUrl(currentFlights) ==
    IF Len(currentFlights) = 0
    THEN [shareUrl |-> <<>>, toast |-> "No flights to share! Add some flights first."]
    ELSE LET dataToShare == JObj(<<Codes("flights"), Codes("timestamp")>>,
                                 <<JArr(currentFlights), JStr(Timestamp)>>)
             encodedData == btoa(stringify(dataToShare))
         IN  IF encodedData.ok
             THEN [shareUrl |-> BaseUrl \o DataParam \o encodedData.s,
                   toast |-> "Share link generated!"]
             ELSE [shareUrl |-> <<>>, toast |-> "Failed to generate share link"]

\* JSON.parse(atob(sharedData)); SyntaxError stands for either call throwing
tryDecode(sharedData) ==
    LET raw == atob(sharedData)
    IN  IF raw.ok THEN parse(raw.s) ELSE SyntaxError

\* variant: any truthy flights member is accepted
checkFlightsAnyValue(member) ==
    IF member.k # "undefined"
    THEN [accepted |-> TRUE, flights |-> member.items,
          toast |-> "Shared flight data loaded successfully!"]
    ELSE [accepted |-> FALSE, flights |-> <<>>, toast |-> ""]

\* if (decodedData.flights && Array.isArray(decodedData.flights))
checkFlights(member) ==
    IF IsArray(member)
    THEN [accepted |-> TRUE, flights |-> member.items,
          toast |-> "Shared flight data loaded successfully!"]
    ELSE [accepted |-> FALSE, flights |-> <<>>, toast |-> ""]

\* reading .flights of null throws as well
checkShared(sharedData, decodedData) ==
    IF sharedData = <<>>
    THEN [accepted |-> FALSE, flights |-> <<>>, toast |-> ""]
    ELSE IF decodedData.k \in {"SyntaxError", "null"}
    THEN [accepted |-> FALSE, flights |-> <<>>, toast |-> "Failed to load shared flight data"]
    ELSE checkFlights(Member(decodedData, Codes("flights")))

\* the share branch of the mount effect
decodeShared(locationSearch) ==
    checkShared(SearchParamsGet(locationSearch), tryDecode(SearchParamsGet(locationSearch)))

InitShare ==
    /\ MapInit
    /\ ProjIdle
    /\ DistIdle
    /\ shareIn \in ShareLists
    /\ shareUrl = <<>>
    /\ shareToast = ""
    /\ shareLoaded = <<>>
    /\ StoreIdle

GenerateShareUrl ==
    /\ shareToast = ""
    /\ \E r \in {generateShareUrl(shareIn)} :
           shareUrl' = r.shareUrl /\ shareToast' = r.toast
    /\ UNCHANGED <<mapVars, projVars, storeVars, shareIn, shareLoaded>>

\* the link is opened in a browser that has no saved flights
OpenShareUrl ==
    /\ shareUrl # <<>>
    /\ shareLoaded = <<>>
    /\ \E r \in {decodeShared(Search(shareUrl))} :
           shareLoaded' = <<IF r.accepted THEN r.flights ELSE <<>> >>
    /\ UNCHANGED <<mapVars, projVars, storeVars, shareIn, shareUrl, shareToast>>

NextShare ==
    \/ GenerateShareUrl
    \/ OpenShareUrl

SpecShare == InitShare /\ [][NextShare]_vars

----------------------------------------------------------------------------
(* The flight store (src/src/pages/Index.tsx) with the add form            *)
(* (src/src/components/FlightForm.tsx) and the edit dialog                 *)
(* (src/unnamed/part_000)                                                  *)

FlightObject(from, to, fromCoords, toCoords, date, aircraft, airline, distance, id) ==
    JObj(<<Codes("from"), Codes("to"), Codes("fromCoords"), Codes("toCoords"), Codes("date"),
           Codes("aircraft"), Codes("airline"), Codes("distance"), Codes("id")>>,
         <<JStr(from), JStr(to),
           JArr(<<JNum(fromCoords[1]), JNum(fromCoords[2])>>),
           JArr(<<JNum(toCoords[1]), JNum(toCoords[2])>>),
           JStr(date), JStr(aircraft), JStr(airline), JNum(distance * 10000), JStr(id)>>)

\* field of a flight object as a string of code units, <<>> when absent
Field(flightObject, name) == Member(flightObject, Codes(name)).s

\* flights of earlier sessions: a regular one, one whose origin is not in the
\* airport table of this build, one with origin equal to destination
G1 == FlightValue(F1, Codes("BA"))
G2 == FlightValue(F2, Codes("AF"))
GW == FlightObject(Codes("WAW"), Codes("CDG"), <<209671, 521657>>, CDG, Codes("2024-03-01"),
                   Codes("Airbus A320"), Codes("AF"), 852, Codes("2"))
G4 == FlightValue(F4, Codes("BA"))

SharePayload(list) ==
    stringify(JObj(<<Codes("flights"), Codes("timestamp")>>, <<JArr(list), JStr(Timestamp)>>))

DataSearch(text) == DataParam \o Base64(text)

\* the localStorage branch of the mount effect: JSON.parse of the saved text
loadSaved(savedFlights) ==
    IF savedFlights # <<>> /\ savedFlights[1] # <<>> THEN parse(savedFlights[1]) ELSE SyntaxError

\* variant: the shared flights are added to the saved ones
mountResultMerge(shared, loaded, locationSearch, savedToken) ==
    IF shared.accepted
    THEN [setFlights |-> <<JArr(loaded.items \o shared.flights)>>, setMapboxToken |-> <<>>,
          search |-> <<>>, token |-> savedToken, toast |-> shared.toast]
    ELSE [setFlights |-> IF loaded.k = "SyntaxError" THEN <<>> ELSE <<loaded>>,
          setMapboxToken |-> IF savedToken # "" THEN <<savedToken>> ELSE <<>>,
          search |-> locationSearch,
          token |-> IF savedToken # "" THEN savedToken ELSE DEFAULT_MAPBOX_TOKEN,
          toast |-> shared.toast]

mountResult(shared, loaded, locationSearch, savedToken) ==
    IF shared.accepted
    THEN [setFlights |-> <<JArr(shared.flights)>>, setMapboxToken |-> <<>>,
          search |-> <<>>, token |-> savedToken, toast |-> shared.toast]
    ELSE [setFlights |-> IF loaded.k = "SyntaxError" THEN <<>> ELSE <<loaded>>,
          setMapboxToken |-> IF savedToken # "" THEN <<savedToken>> ELSE <<>>,
          search |-> locationSearch,
          token |-> IF savedToken # "" THEN savedToken ELSE DEFAULT_MAPBOX_TOKEN,
          toast |-> shared.toast]

\* the mount effect: what it queues with setFlights and setMapboxToken, what
\* it leaves in the address bar and under the token key
mountEffect(locationSearch, savedFlights, savedToken) ==
    mountResult(decodeShared(locationSearch), loadSaved(savedFlights), locationSearch, savedToken)

\* variant: the list is stored wrapped in an object, as the share payload is
saveFlightsWrapped(currentFlights) ==
    <<stringify(JObj(<<Codes("flights")>>, <<currentFlights>>))>>

\* the save-flights effect
saveFlights(currentFlights) == <<stringify(currentFlights)>>

\* the save-token effect
saveToken(token, savedToken) == IF token # "" THEN token ELSE savedToken

\* the render of Index: flights.reduce and flights.length need an array
renders(currentFlights) == IsArray(currentFlights)

\* what localStorage can hold under the flights key when the page opens
BadJsonText == <<123, 111, 111, 112, 115>>      \* {oops
NullText == <<110, 117, 108, 108>>              \* null
EmptyObjectText == <<123, 125>>                 \* {}

StoredLists == {<<G1>>, <<G1, GW>>}
CorruptedTexts == {BadJsonText, NullText, EmptyObjectText}

StoredFlights ==
    {<<>>} \cup {<<text>> : text \in CorruptedTexts}
           \cup {saveFlights(JArr(list)) : list \in StoredLists}

StoredTokens == {"", "pk.saved"}

\* the query strings the page can be opened with
BadBase64Text == <<33, 33, 33, 33>>             \* !!!!

BadSearches ==
    { DataParam \o BadBase64Text,
      DataSearch(BadJsonText),
      DataSearch(NullText),
      DataSearch(stringify(JObj(<<Codes("timestamp")>>, <<JStr(Timestamp)>>))),
      DataSearch(stringify(JObj(<<Codes("flights")>>, <<JStr(Codes("JFK"))>>))) }

SharedLists == {<<G2>>, <<G2, G4>>}

Searches == {<<>>} \cup BadSearches \cup {DataSearch(SharePayload(list)) : list \in SharedLists}

\* first commit: render with the initial state, then the three effects in
\* the order of their definition
MountCommit ==
    /\ ipc = "init"
    /\ \E m \in {mountEffect(search, lsFlights, lsToken)} :
           /\ queued' = [setFlights |-> m.setFlights, setMapboxToken |-> m.setMapboxToken]
           /\ search' = m.search
           /\ toast' = m.toast
           /\ lsFlights' = saveFlights(indexFlights)
           /\ lsToken' = saveToken(indexToken, m.token)
    /\ ipc' = "mounted"
    /\ UNCHANGED <<mapVars, projVars, shareVars, indexFlights, indexToken, formVars, now, called,
                   opened>>

\* the render that applies the queued updates, and the effects whose
\* dependency changed
MountSettle ==
    /\ ipc = "mounted"
    /\ LET newFlights == IF queued.setFlights # <<>> THEN queued.setFlights[1] ELSE indexFlights
           newToken   == IF queued.setMapboxToken # <<>> THEN queued.setMapboxToken[1]
                         ELSE indexToken
       IN  /\ indexFlights' = newFlights
           /\ indexToken' = newToken
           /\ IF renders(newFlights)
              THEN /\ ipc' = "idle"
                   /\ lsFlights' = IF queued.setFlights # <<>> THEN saveFlights(newFlights)
                                   ELSE lsFlights
                   /\ lsToken' = IF newToken # indexToken THEN saveToken(newToken, lsToken)
                                 ELSE lsToken
              ELSE /\ ipc' = "crashed"
                   /\ UNCHANGED storageVars
    /\ queued' = NothingQueued
    /\ UNCHANGED <<mapVars, projVars, shareVars, search, formVars, now, toast, called, opened>>

InitMount ==
    /\ MapInit
    /\ ProjIdle
    /\ DistIdle
    /\ ShareIdle
    /\ StoreStart
    /\ lsFlights \in StoredFlights
    /\ lsToken \in StoredTokens
    /\ search \in Searches
    /\ opened = OpenedWith(search, lsFlights, lsToken)

NextMount ==
    \/ MountCommit
    \/ MountSettle

SpecMount == InitMount /\ [][NextMount]_vars

----------------------------------------------------------------------------
(* The add form, the edit dialog and the list operations of Index *)

\* the airport table of both forms; <<>> is undefined
airports(code) ==
    CASE code = Codes("JFK") -> <<JFK>>
      [] code = Codes("LHR") -> <<LHR>>
      [] code = Codes("CDG") -> <<CDG>>
      [] OTHER -> <<>>

\* the coords of the airport table, times 10^4, in the order of the table of
\* the edit dialog; the table of the add form is the same without CUN
AirportCoords ==
    <<
       <<-844281, 336407>>,   \* ATL
       <<25479, 490097>>,   \* CDG
       <<186017, -339649>>,   \* CPT
       <<-868770, 210366>>,   \* CUN
       <<553644, 252532>>,   \* DXB
       <<85622, 500379>>,   \* FRA
       <<-737781, 406413>>,   \* JFK
       <<-1184081, 339425>>,   \* LAX
       <<-4543, 514700>>,   \* LHR
       <<-35679, 404719>>,   \* MAD
       <<-877524, 417868>>,   \* MDW
       <<1403929, 357720>>,   \* NRT
       <<-879073, 419742>>,   \* ORD
       <<1039915, 13644>>,   \* SIN
       <<1511772, -339399>>,   \* SYD
       <<-825332, 279755>>,   \* TPA
       <<-796248, 436777>>    \* YYZ
    >>

\* position of a coordinate pair in the table
CoordIndex(coord) == CHOOSE i \in 1..Len(AirportCoords) : AirportCoords[i] = coord

\* Math.round(R * c) of the haversine formula, R = 3959, evaluated in IEEE
\* double arithmetic for every ordered pair of table coordinates: the row is
\* coord1, the column is coord2; every R * c is further than 0.001 from a
\* rounding boundary
DistanceTable ==
    <<
       <<0, 4384, 8134, 884, 7587, 4604, 759, 1942, 4201, 4326, 591, 6836, 606, 9958, 9286, 407, 740>>,
       <<4384, 0, 5818, 5107, 3255, 279, 3625, 5656, 216, 661, 4144, 6034, 4142, 6664, 10529, 4573, 3741>>,
       <<8134, 5818, 0, 7879, 4750, 5837, 7805, 9992, 6016, 5334, 8507, 9185, 8519, 6008, 6829, 7863, 8163>>,
       <<884, 5107, 7879, 0, 8357, 5347, 1558, 2117, 4941, 4947, 1435, 7442, 1448, 10724, 8817, 552, 1619>>,
       <<7587, 3255, 4750, 8357, 0, 3010, 6836, 8327, 3416, 3510, 7240, 4959, 7234, 3633, 7484, 7816, 6886>>,
       <<4604, 279, 5837, 5347, 3010, 0, 3846, 5792, 406, 884, 4335, 5820, 4332, 6387, 10251, 4809, 3941>>,
       <<759, 3625, 7805, 1558, 6836, 3846, 0, 2470, 3443, 3580, 730, 6729, 738, 9532, 9951, 1006, 366>>,
       <<1942, 5656, 9992, 2117, 8327, 5792, 2470, 0, 5444, 5833, 1747, 5439, 1741, 8762, 7495, 2154, 2171>>,
       <<4201, 216, 6016, 4941, 3416, 406, 3443, 5444, 0, 774, 3945, 5960, 3943, 6762, 10576, 4403, 3546>>,
       <<4326, 661, 5334, 4947, 3510, 884, 3580, 5833, 774, 0, 4191, 6694, 4192, 7073, 10982, 4446, 3765>>,
       <<591, 4144, 8507, 1435, 7240, 4335, 730, 1747, 3945, 4191, 0, 6275, 15, 9367, 9241, 999, 432>>,
       <<6836, 6034, 9185, 7442, 4959, 5820, 6729, 5439, 5960, 6694, 6275, 0, 6260, 3329, 4867, 7221, 6400>>,
       <<606, 4142, 8519, 1448, 7234, 4332, 738, 1741, 3943, 4192, 15, 6260, 0, 9352, 9235, 1013, 436>>,
       <<9958, 6664, 6008, 10724, 3633, 6387, 9532, 8762, 6762, 7073, 9367, 3329, 9352, 0, 3911, 10365, 9317>>,
       <<9286, 10529, 6829, 8817, 7484, 10251, 9951, 7495, 10576, 10982, 9241, 4867, 9235, 3911, 0, 9264, 9666>>,
       <<407, 4573, 7863, 552, 7816, 4809, 1006, 2154, 4403, 4446, 999, 7221, 1013, 10365, 9264, 0, 1097>>,
       <<740, 3741, 8163, 1619, 6886, 3941, 366, 2171, 3546, 3765, 432, 6400, 436, 9317, 9666, 1097, 0>>
    >>

\* variant: the cosine of the latitude of coord2 is multiplied in twice
calculateDistanceTwiceCos(coord1, coord2) ==
    LET table ==
          <<
             <<0, 3546, 7512, 883, 7064, 3681, 703, 1766, 3350, 3732, 584, 5971, 599, 9954, 8362, 405, 727>>,
             <<3990, 0, 5803, 4940, 3132, 227, 3144, 5087, 200, 645, 3544, 5334, 3536, 6663, 9368, 4301, 3153>>,
             <<7523, 5789, 0, 7600, 4689, 5825, 7145, 8827, 5973, 5289, 7613, 8234, 7616, 6007, 6049, 7431, 7350>>,
             <<882, 4211, 7178, 0, 7718, 4357, 1511, 1960, 4042, 4300, 1434, 6473, 1448, 10719, 7884, 544, 1604>>,
             <<6680, 2793, 4641, 7906, 0, 2612, 5764, 7230, 2901, 3084, 6006, 4418, 5992, 3632, 6909, 7137, 5658>>,
             <<4187, 230, 5831, 5169, 2908, 0, 3333, 5206, 326, 836, 3704, 5160, 3695, 6386, 9225, 4519, 3320>>,
             <<720, 2920, 7335, 1545, 6410, 3063, 0, 2252, 2725, 3096, 631, 5887, 638, 9529, 8897, 992, 330>>,
             <<1769, 4481, 8826, 2057, 7697, 4534, 2155, 0, 4233, 4964, 1531, 4815, 1525, 8760, 7010, 2026, 1875>>,
             <<3839, 201, 5997, 4789, 3291, 331, 3000, 4913, 0, 771, 3387, 5281, 3379, 6761, 9435, 4154, 3001>>,
             <<3916, 638, 5302, 4771, 3345, 811, 3092, 5218, 769, 0, 3573, 5858, 3568, 7071, 9449, 4162, 3169>>,
             <<587, 3314, 7896, 1435, 6771, 3427, 637, 1605, 3093, 3612, 0, 5518, 15, 9364, 8437, 994, 374>>,
             <<6068, 4737, 8318, 7094, 4688, 4541, 5652, 4876, 4573, 5633, 5249, 0, 5229, 3329, 4858, 6637, 5255>>,
             <<601, 3312, 7908, 1448, 6766, 3423, 644, 1601, 3090, 3612, 15, 5506, 0, 9350, 8436, 1008, 376>>,
             <<8444, 5590, 5488, 9790, 3484, 5386, 7748, 7649, 5596, 6128, 7587, 3168, 7567, 0, 3693, 9074, 7447>>,
             <<8377, 8472, 6048, 8436, 7159, 8334, 8524, 7010, 8408, 8997, 8079, 4858, 8070, 3911, 0, 8568, 8263>>,
             <<405, 3740, 7237, 547, 7258, 3887, 976, 1965, 3563, 3851, 988, 6283, 1002, 10361, 8277, 0, 1094>>,
             <<732, 2997, 7654, 1615, 6461, 3122, 335, 1994, 2783, 3254, 379, 5624, 380, 9315, 8756, 1096, 0>>
          >>
    IN  table[CoordIndex(coord1)][CoordIndex(coord2)]

\* Math.round of the haversine distance in miles, for the coordinates of the table
calculateDistance(coord1, coord2) == DistanceTable[CoordIndex(coord1)][CoordIndex(coord2)]

\* calculateDistance on its own: every ordered pair of table coordinates,
\* computed once by the add form and once by the edit dialog

DialogCoords == {AirportCoords[i] : i \in 1..Len(AirportCoords)}

\* the table of the add form has no CUN
CUN == <<-868770, 210366>>
FormCoords == DialogCoords \ {CUN}

InitDist ==
    /\ MapInit
    /\ ProjIdle
    /\ distIn \in DialogCoords \X DialogCoords
    /\ distForm = <<>>
    /\ distDialog = <<>>
    /\ ShareIdle
    /\ StoreIdle

FormDistance ==
    /\ distForm = <<>>
    /\ distIn[1] \in FormCoords
    /\ distIn[2] \in FormCoords
    /\ distForm' = <<calculateDistance(distIn[1], distIn[2])>>
    /\ UNCHANGED <<mapVars, shareVars, storeVars, projIn, projOut, projAirports, statVars,
                   distIn, distDialog>>

DialogDistance ==
    /\ distDialog = <<>>
    /\ distDialog' = <<calculateDistance(distIn[1], distIn[2])>>
    /\ UNCHANGED <<mapVars, shareVars, storeVars, projIn, projOut, projAirports, statVars,
                   distIn, distForm>>

NextDist ==
    \/ FormDistance
    \/ DialogDistance

SpecDist == InitDist /\ [][NextDist]_vars

Form(from, to, date, aircraft, airline) ==
    [from |-> from, to |-> to, date |-> date, aircraft |-> aircraft, airline |-> airline]

\* variant: equal origin and destination pass
validateNoSameCheck(fd) ==
    IF fd.from = <<>> \/ fd.to = <<>> \/ fd.date = <<>> \/ fd.aircraft = <<>> \/ fd.airline = <<>>
    THEN "Please fill in all fields"
    ELSE IF airports(fd.from) = <<>> \/ airports(fd.to) = <<>>
    THEN "Please select valid airports"
    ELSE ""

\* the checks at the head of handleSubmit (the same in both forms): the
\* error toast, "" when the submission passes
validate(fd) ==
    IF fd.from = <<>> \/ fd.to = <<>> \/ fd.date = <<>> \/ fd.aircraft = <<>> \/ fd.airline = <<>>
    THEN "Please fill in all fields"
    ELSE IF fd.from = fd.to
    THEN "Departure and arrival airports cannot be the same"
    ELSE IF airports(fd.from) = <<>> \/ airports(fd.to) = <<>>
    THEN "Please select valid airports"
    ELSE ""

\* { ...obj, key: val }
SetMember(obj, key, val) ==
    IF \E i \in 1..Len(obj.keys) : obj.keys[i] = key
    THEN [obj EXCEPT !.items = [i \in 1..Len(obj.items) |->
                                   IF obj.keys[i] = key THEN val ELSE obj.items[i]]]
    ELSE [obj EXCEPT !.keys = Append(@, key), !.items = Append(@, val)]

Coords(c) == JArr(<<JNum(c[1]), JNum(c[2])>>)

\* the argument FlightForm passes to onAddFlight
newFlight(fd) ==
    JObj(<<Codes("from"), Codes("to"), Codes("fromCoords"), Codes("toCoords"), Codes("date"),
           Codes("aircraft"), Codes("airline"), Codes("distance")>>,
         <<JStr(fd.from), JStr(fd.to), Coords(airports(fd.from)[1]), Coords(airports(fd.to)[1]),
           JStr(fd.date), JStr(fd.aircraft), JStr(fd.airline),
           JNum(calculateDistance(airports(fd.from)[1], airports(fd.to)[1]) * 10000)>>)

\* the argument EditFlightDialog passes to onSave
updatedFlight(flight, fd) ==
    SetMember(SetMember(SetMember(SetMember(SetMember(SetMember(SetMember(SetMember(flight,
        Codes("from"), JStr(fd.from)),
        Codes("to"), JStr(fd.to)),
        Codes("fromCoords"), Coords(airports(fd.from)[1])),
        Codes("toCoords"), Coords(airports(fd.to)[1])),
        Codes("date"), JStr(fd.date)),
        Codes("aircraft"), JStr(fd.aircraft)),
        Codes("airline"), JStr(fd.airline)),
        Codes("distance"),
        JNum(calculateDistance(airports(fd.from)[1], airports(fd.to)[1]) * 10000))

\* the effect of the dialog that copies the flight into its form
FormOf(flight) ==
    Form(Field(flight, "from"), Field(flight, "to"), Field(flight, "date"),
         Field(flight, "aircraft"), Field(flight, "airline"))

IdOf(flight) == Member(flight, Codes("id"))

\* variant: the new flight goes to the front
addFlightFirst(prev, flight, clock) ==
    <<SetMember(flight, Codes("id"), JStr(Digits(clock)))>> \o prev

addFlight(prev, flight, clock) ==
    Append(prev, SetMember(flight, Codes("id"), JStr(Digits(clock))))

deleteFlight(prev, id) ==
    LET Keep(flight) == IdOf(flight) # id
    IN  SelectSeq(prev, Keep)

handleSaveEdit(prev, updated) ==
    [i \in 1..Len(prev) |-> IF IdOf(prev[i]) = IdOf(updated) THEN updated ELSE prev[i]]

\* what the user puts into the add form and into the edit dialog
AddForms ==
    { Form(Codes("JFK"), Codes("LHR"), Codes("2024-01-01"), Codes("Boeing 777"), Codes("BA")),
      Form(Codes("JFK"), Codes("LHR"), Codes("2024-01-01"), Codes("Boeing 777"), <<>>),
      Form(Codes("JFK"), Codes("JFK"), Codes("2024-01-01"), Codes("Boeing 777"), Codes("BA")) }

EditForms ==
    { Form(Codes("LHR"), Codes("CDG"), Codes("2024-02-01"), Codes("Airbus A320"), Codes("AF")),
      Form(Codes("LHR"), Codes("CDG"), <<>>, Codes("Airbus A320"), Codes("AF")),
      Form(Codes("CDG"), Codes("CDG"), Codes("2024-02-01"), Codes("Airbus A320"), Codes("AF")) }

Usable == ipc = "idle" /\ ~isEditDialogOpen

Tick ==
    /\ ipc = "idle"
    /\ now < StartClock + MaxTicks
    /\ now' = now + 1
    /\ UNCHANGED <<mapVars, projVars, shareVars, ipc, indexFlights, indexToken, queued,
                   storageVars, search, formVars, toast, called, opened>>

\* the onChange handlers of the add form
TypeForm ==
    /\ Usable
    /\ \E fd \in AddForms : formData # fd /\ formData' = fd
    /\ toast' = ""
    /\ called' = ""
    /\ UNCHANGED <<mapVars, projVars, shareVars, ipc, indexFlights, indexToken, queued,
                   storageVars, search, editingFlight, isEditDialogOpen, editFormData, now,
                   opened>>

\* FlightForm.handleSubmit, addFlight, and the save-flights effect of the
\* commit that follows
SubmitAdd ==
    /\ Usable
    /\ \E error \in {validate(formData)} :
        IF error # ""
        THEN /\ toast' = error
             /\ called' = ""
             /\ UNCHANGED <<indexFlights, lsFlights, formData>>
        ELSE /\ Len(indexFlights.items) < MaxFlights
             /\ indexFlights' = JArr(addFlight(indexFlights.items, newFlight(formData), now))
             /\ lsFlights' = saveFlights(indexFlights')
             /\ formData' = EmptyForm
             /\ toast' = "Flight added successfully!"
             /\ called' = "onAddFlight"
    /\ UNCHANGED <<mapVars, projVars, shareVars, ipc, indexToken, queued, lsToken, search,
                   editingFlight, isEditDialogOpen, editFormData, now, opened>>

\* the delete button of a list entry, and the save-flights effect
DeleteFlight ==
    /\ Usable
    /\ \E i \in 1..Len(indexFlights.items) :
        indexFlights' = JArr(deleteFlight(indexFlights.items, IdOf(indexFlights.items[i])))
    /\ lsFlights' = saveFlights(indexFlights')
    /\ toast' = ""
    /\ called' = ""
    /\ UNCHANGED <<mapVars, projVars, shareVars, ipc, indexToken, queued, lsToken, search,
                   formVars, now, opened>>

\* the edit button of a list entry: handleEditFlight, and the dialog's effect
OpenEdit ==
    /\ Usable
    /\ \E i \in 1..Len(indexFlights.items) :
        /\ editingFlight' = <<indexFlights.items[i]>>
        /\ editFormData' = FormOf(indexFlights.items[i])
    /\ isEditDialogOpen' = TRUE
    /\ toast' = ""
    /\ called' = ""
    /\ UNCHANGED <<mapVars, projVars, shareVars, ipc, indexFlights, indexToken, queued,
                   storageVars, search, formData, now, opened>>

\* the onChange handlers of the dialog
TypeEdit ==
    /\ ipc = "idle"
    /\ isEditDialogOpen
    /\ \E fd \in EditForms : editFormData # fd /\ editFormData' = fd
    /\ toast' = ""
    /\ called' = ""
    /\ UNCHANGED <<mapVars, projVars, shareVars, ipc, indexFlights, indexToken, queued,
                   storageVars, search, formData, editingFlight, isEditDialogOpen, now, opened>>

\* EditFlightDialog.handleSubmit, handleSaveEdit, handleCloseEdit, and the
\* save-flights effect
SubmitEdit ==
    /\ ipc = "idle"
    /\ isEditDialogOpen
    /\ \E error \in {validate(editFormData)} :
        IF error # ""
        THEN /\ toast' = error
             /\ called' = ""
             /\ UNCHANGED <<indexFlights, lsFlights, editingFlight, isEditDialogOpen>>
        ELSE /\ indexFlights' = JArr(handleSaveEdit(indexFlights.items,
                                        updatedFlight(editingFlight[1], editFormData)))
             /\ lsFlights' = saveFlights(indexFlights')
             /\ editingFlight' = <<>>
             /\ isEditDialogOpen' = FALSE
             /\ toast' = "Flight updated successfully!"
             /\ called' = "onSave"
    /\ UNCHANGED <<mapVars, projVars, shareVars, ipc, indexToken, queued, lsToken, search,
                   formData, editFormData, now, opened>>

\* handleCloseEdit
CloseEdit ==
    /\ ipc = "idle"
    /\ isEditDialogOpen
    /\ isEditDialogOpen' = FALSE
    /\ editingFlight' = <<>>
    /\ toast' = ""
    /\ called' = ""
    /\ UNCHANGED <<mapVars, projVars, shareVars, ipc, indexFlights, indexToken, queued,
                   storageVars, search, formData, editFormData, now, opened>>

InitStore ==
    /\ MapInit
    /\ ProjIdle
    /\ DistIdle
    /\ ShareIdle
    /\ StoreStart
    /\ lsFlights \in {<<>>, saveFlights(JArr(<<G1, GW>>))}
    /\ lsToken = ""
    /\ search \in {<<>>, DataSearch(SharePayload(<<G2, G4>>))}
    /\ opened = OpenedWith(search, lsFlights, lsToken)

NextStore ==
    \/ MountCommit
    \/ MountSettle
    \/ Tick
    \/ TypeForm
    \/ SubmitAdd
    \/ DeleteFlight
    \/ OpenEdit
    \/ TypeEdit
    \/ SubmitEdit
    \/ CloseEdit

SpecStore == InitStore /\ [][NextStore]_vars

----------------------------------------------------------------------------
(* Properties of the map controller *)

Ready == map # 0 /\ isMapLoaded /\ sourcesInitialized

IsWrite(o) == o.op = "setData"
IsLayerCall(o) == o.op \in {"addLayers", "setData"}
SetDataOps(o) == SelectSeq(o, IsWrite)
LayerCalls(o) == SelectSeq(o, IsLayerCall)

\* one call of updateMapData on surface m with list L: one setData per source
OneWrite(o, m, L) ==
    SetDataOps(o) = << Op("setData", m, "routes", routeFeatures(L)),
                       Op("setData", m, "airports", uniqueAirports(airportFeatures(L))) >>

SubmitStep == pc = "effect2" /\ pc' = "idle"
CleanupStep == pc \in {"cleanup", "unmount"} /\ pc' # pc
MapEffectStep == pc = "effect1" /\ pc' # pc
RegistrationStep == ~sourcesInitialized /\ sourcesInitialized'
LoadStepOf(s) == surfaces'[s].signals = surfaces[s].signals + 1
NoneAlive(ss) == \A s \in 1..Len(ss) : ~ss[s].alive

\* C1: whenever the component is settled and Ready on a map that has itself
\* loaded and carries both layers, the data of the 'routes' and 'airports'
\* sources of that map is the projection of the current flights prop.
C1_LayersFollowFlights ==
    (pc = "idle" /\ Ready /\ surfaces[map].signals >= 1 /\ surfaces[map].layers = 2) =>
        /\ surfaces[map].routes = routeFeatures(flights)
        /\ surfaces[map].airports = uniqueAirports(airportFeatures(flights))

\* C2: a snapshot submitted (effect 2) while not Ready makes no setData call,
\* changes no surface, leaves the controller not Ready and replaces the
\* pending buffer by the snapshot; and the controller becomes Ready only in
\* a step that delivers a 'load' signal.
C2_SubmitBeforeReadyBuffers ==
    [][ /\ (SubmitStep /\ ~Ready) =>
             /\ SetDataOps(ops') = <<>>
             /\ ops' = <<>>
             /\ surfaces' = surfaces
             /\ pendingFlights' = flights
             /\ ~Ready'
        /\ (~Ready /\ Ready') =>
             \E s \in 1..Len(surfaces) : LoadStepOf(s) ]_vars

C2_Witness ==
    /\ pc = "idle"
    /\ map # 0
    /\ surfaces[map].signals = 0
    /\ ~Ready
    /\ flights # <<>>
    /\ pendingFlights = flights
    /\ lastBuffered = <<flights>>
    /\ ops = <<>>

\* C3 as stated: when registration makes the controller Ready and a snapshot
\* was buffered since the last teardown, exactly one write (one setData per
\* source) of that snapshot's projection happens in the registration step.
C3_OneWriteOnReady ==
    [][ (RegistrationStep /\ lastBuffered # <<>>) =>
            OneWrite(ops', map', lastBuffered[1]) ]_vars

\* C3 amended: a buffered non-empty snapshot is written exactly once, in the
\* registration step, and the buffer is emptied; a buffered empty snapshot
\* causes no write and the sources keep the empty collections they were
\* registered with; every other write is a submit made while Ready and
\* carries the projection of the snapshot submitted.
C3_PendingAppliedOnReady ==
    [][ /\ (RegistrationStep /\ lastBuffered # <<>>) =>
             IF lastBuffered[1] # <<>>
             THEN /\ OneWrite(ops', map', lastBuffered[1])
                  /\ pendingFlights' = <<>>
                  /\ lastBuffered' = <<>>
             ELSE /\ SetDataOps(ops') = <<>>
                  /\ surfaces'[map'].routes = <<>>
                  /\ surfaces'[map'].airports = <<>>
        /\ (SetDataOps(ops') # <<>> /\ ~RegistrationStep) =>
             /\ SubmitStep
             /\ Ready
             /\ OneWrite(ops', map, flights) ]_vars

C3_Witness ==
    /\ Ready
    /\ Len(ops) = 3
    /\ ops[1].op = "addLayers"
    /\ OneWrite(ops, map, flights)
    /\ flights # <<>>
    /\ pendingFlights = <<>>

\* C4: a 'load' signal of a surface that was already removed changes none of
\* isMapLoaded, sourcesInitialized, pendingFlights and makes no addLayers or
\* setData call on any surface.
C4_StaleReadyDiscarded ==
    [][ (\E s \in 1..Len(surfaces) : ~surfaces[s].alive /\ LoadStepOf(s)) =>
            /\ isMapLoaded' = isMapLoaded
            /\ sourcesInitialized' = sourcesInitialized
            /\ pendingFlights' = pendingFlights
            /\ LayerCalls(ops') = <<>> ]_vars

\* C5: every surface gets its two layers and four listeners at most once;
\* a second 'load' signal of a surface leaves that surface's layers,
\* listeners and data as they are, and when the surface is the live one the
\* step makes no addLayers or setData call at all.
C5_RegisteredOncePerSurface ==
    [][ /\ \A s \in 1..Len(surfaces') :
              surfaces'[s].layers <= 2 /\ surfaces'[s].handlers <= 4
        /\ \A s \in 1..Len(surfaces) :
              (surfaces[s].signals >= 1 /\ LoadStepOf(s)) =>
                 /\ surfaces'[s].layers = surfaces[s].layers
                 /\ surfaces'[s].handlers = surfaces[s].handlers
                 /\ surfaces'[s].routes = surfaces[s].routes
                 /\ surfaces'[s].airports = surfaces[s].airports
                 /\ surfaces[s].alive => LayerCalls(ops') = <<>> ]_vars

C5_Witness ==
    \E s \in 1..Len(surfaces) :
        /\ surfaces[s].alive
        /\ surfaces[s].signals = 2
        /\ surfaces[s].layers = 2
        /\ surfaces[s].handlers = 4
        /\ ops = <<>>

\* C6: every addLayers and setData call is made on a surface that has not
\* been removed.
C6_NoUseAfterDestroy ==
    \A i \in 1..Len(ops) : IsLayerCall(ops[i]) => surfaces[ops[i].s].alive

\* a surface was torn down while Ready, and the snapshot submitted in the
\* same update sits in the buffer of the replacement surface
C6_Witness ==
    /\ pc = "idle"
    /\ Len(surfaces) = 2
    /\ ~surfaces[1].alive /\ surfaces[1].layers = 2
    /\ map = 2 /\ surfaces[2].alive /\ surfaces[2].layers = 0
    /\ flights # <<>>
    /\ lastBuffered = <<flights>>

\* C7: the cleanup of effect 1 removes the surface and leaves map.current
\* null, both flags false, the pending buffer empty and no surface alive.
C7_TeardownResets ==
    [][ CleanupStep =>
            /\ map' = 0
            /\ ~isMapLoaded'
            /\ ~sourcesInitialized'
            /\ pendingFlights' = <<>>
            /\ NoneAlive(surfaces')
            /\ map # 0 => ops' = << Op("remove", map, "", <<>>) >> ]_vars

\* the surface just removed had its layers registered
C7_Witness ==
    /\ pc \in {"effect1", "effect2", "gone"}
    /\ Len(ops) = 1 /\ ops[1].op = "remove"
    /\ surfaces[ops[1].s].layers = 2
    /\ map = 0 /\ ~isMapLoaded /\ ~sourcesInitialized /\ pendingFlights = <<>>

\* C8: a surface is created only by effect 1 with a non-empty token, one at a
\* time and only when no other surface is alive; the new surface has no
\* layers, has not loaded and the controller is not Ready. With an empty
\* token effect 1 creates nothing and there is no surface; in every settled
\* state a surface exists exactly when the token is non-empty.
C8_SurfaceOnlyWithToken ==
    [][ /\ (Len(surfaces') # Len(surfaces)) =>
              /\ MapEffectStep
              /\ mapboxToken # ""
              /\ NoneAlive(surfaces)
              /\ surfaces' = Append(surfaces, NewSurface)
              /\ map' = Len(surfaces')
              /\ ~sourcesInitialized'
        /\ (MapEffectStep /\ mapboxToken = "") =>
              /\ surfaces' = surfaces
              /\ map' = 0
              /\ NoneAlive(surfaces')
        /\ (MapEffectStep /\ mapboxToken # "") => Len(surfaces') = Len(surfaces) + 1
        /\ (pc' = "idle") =>
              /\ (mapboxToken' = "") => (map' = 0 /\ NoneAlive(surfaces'))
              /\ (mapboxToken' # "") => (map' # 0 /\ surfaces'[map'].alive) ]_vars

C8_Witness ==
    /\ pc = "idle"
    /\ Len(surfaces) = 2
    /\ ~surfaces[1].alive
    /\ map = 2
    /\ surfaces[2] = NewSurface
    /\ ~sourcesInitialized
    /\ mapboxToken # ""

\* C9: submitting the empty list while Ready sets both sources of the
\* current map to the empty feature collection.
C9_EmptySubmitClears ==
    [][ (SubmitStep /\ Ready /\ flights = <<>>) =>
            /\ surfaces'[map].routes = <<>>
            /\ surfaces'[map].airports = <<>>
            /\ ops' = << Op("setData", map, "routes", <<>>),
                         Op("setData", map, "airports", <<>>) >> ]_vars

C9_Witness ==
    /\ pc = "idle"
    /\ Ready
    /\ flights = <<>>
    /\ ops = << Op("setData", map, "routes", <<>>),
                Op("setData", map, "airports", <<>>) >>
    /\ surfaces[map].routes = <<>>
    /\ surfaces[map].airports = <<>>

\* C10: the route projection of a list L has Len(L) features; feature i has
\* geometry [L[i].fromCoords, L[i].toCoords] and the properties flightId,
\* from, to, airline, aircraft, date of L[i].
C10_RoutesProjection ==
    projOut # <<>> =>
        LET out == projOut[1]
        IN  /\ Len(out) = Len(projIn)
            /\ \A i \in 1..Len(projIn) :
                  /\ out[i].geometry.coordinates =
                        <<projIn[i].fromCoords, projIn[i].toCoords>>
                  /\ out[i].properties.flightId = projIn[i].id
                  /\ out[i].properties.from = projIn[i].from
                  /\ out[i].properties.to = projIn[i].to
                  /\ out[i].properties.airline = projIn[i].airline
                  /\ out[i].properties.aircraft = projIn[i].aircraft
                  /\ out[i].properties.date = projIn[i].date
                  /\ DOMAIN out[i].properties =
                        {"flightId", "from", "to", "airline", "aircraft", "date"}

C10_Witness ==
    /\ projOut # <<>>
    /\ Len(projIn) >= 2
    /\ projIn[1] # projIn[2]
    /\ Len(projOut[1]) = Len(projIn)

\* C11: the airport projection of a list L has at most 2*Len(L) features,
\* no two with the same coordinate pair; every coordinate pair of L occurs
\* in it, and the feature kept for a pair is the first feature with that
\* pair in the flattened order (departure, arrival per flight), with that
\* occurrence's airport and type tag; the kept features are in flattened order.
C11_AirportsProjection ==
    projAirports # <<>> =>
        LET out  == projAirports[1]
            flat == airportFeatures(projIn)
            Coord(f) == f.geometry.coordinates
            First(c) == CHOOSE j \in 1..Len(flat) :
                           /\ Coord(flat[j]) = c
                           /\ \A k \in 1..(j - 1) : Coord(flat[k]) # c
        IN  /\ Len(flat) = 2 * Len(projIn)
            /\ \A i \in 1..Len(projIn) :
                  /\ flat[2 * i - 1].properties = [airport |-> projIn[i].from, type |-> "departure"]
                  /\ Coord(flat[2 * i - 1]) = projIn[i].fromCoords
                  /\ flat[2 * i].properties = [airport |-> projIn[i].to, type |-> "arrival"]
                  /\ Coord(flat[2 * i]) = projIn[i].toCoords
            /\ Len(out) <= 2 * Len(projIn)
            /\ \A i, j \in 1..Len(out) : i # j => Coord(out[i]) # Coord(out[j])
            /\ \A k \in 1..Len(flat) :
                  \E i \in 1..Len(out) : out[i] = flat[First(Coord(flat[k]))]
            /\ \A i \in 1..Len(out) : out[i] = flat[First(Coord(out[i]))]
            /\ \A i, j \in 1..Len(out) :
                  i < j => First(Coord(out[i])) < First(Coord(out[j]))
            /\ (projIn = <<F1, F2>>) => Len(out) = 3
            /\ (projIn = <<F4>>) => Len(out) = 1

\* LHR is the arrival of the first flight and the departure of the second:
\* the arrival feature is the one kept
C11_Witness ==
    /\ projIn = <<F1, F2>>
    /\ projAirports # <<>>
    /\ Len(projAirports[1]) = 3
    /\ projAirports[1][2].properties = [airport |-> "LHR", type |-> "arrival"]

\* C12: a submit made while Ready with the snapshot the previous push already
\* carried leaves every surface, the flags and the pending buffer as they
\* were; the two setData calls are repeated with the same collections.
C12_ResubmitIdempotent ==
    [][ ( /\ SubmitStep
          /\ Ready
          /\ pushes >= 1
          /\ surfaces[map].routes = routeFeatures(flights)
          /\ surfaces[map].airports = uniqueAirports(airportFeatures(flights)) ) =>
            /\ surfaces' = surfaces
            /\ map' = map
            /\ isMapLoaded' = isMapLoaded
            /\ sourcesInitialized' = sourcesInitialized
            /\ pendingFlights' = pendingFlights
            /\ OneWrite(ops', map, flights) ]_vars

C12_Witness ==
    /\ pc = "idle"
    /\ Ready
    /\ pushes = 2
    /\ flights # <<>>
    /\ OneWrite(ops, map, flights)
    /\ surfaces[map].routes = routeFeatures(flights)
    /\ pendingFlights = <<>>

\* C13: a share link generated from a non-empty flight list and opened on
\* mount gives the opening session the identical list, in the same order and
\* with the same field values, typed airline names included.
C13_ShareRoundTrip ==
    shareLoaded # <<>> => shareLoaded[1] = shareIn

----------------------------------------------------------------------------
(* Properties of the mount sequence of Index *)

\* the flight list the page was opened with under the flights key, <<>> when
\* nothing was saved
PersistedList ==
    IF opened.lsFlights = <<>> THEN <<>>
    ELSE CHOOSE list \in StoredLists : opened.lsFlights = <<stringify(JArr(list))>>

PersistedValid ==
    opened.lsFlights = <<>> \/ \E list \in StoredLists : opened.lsFlights = <<stringify(JArr(list))>>

Settled == ipc \in {"idle", "crashed"}

\* C14: a share parameter that is not base64, not JSON, or has no flights
\* array is ignored: after mount the in-memory list is the persisted list and
\* the token is the persisted token (the default when none was saved).
C14_InvalidShareIgnored ==
    (Settled /\ opened.search \in BadSearches /\ PersistedValid) =>
        /\ ipc = "idle"
        /\ indexFlights = JArr(PersistedList)
        /\ indexToken = IF opened.lsToken # "" THEN opened.lsToken ELSE DEFAULT_MAPBOX_TOKEN
        /\ \A i \in 1..Len(indexFlights.items) : indexFlights.items[i] \notin {G2, G4}

C14_Witness ==
    /\ ipc = "idle"
    /\ opened.search = DataSearch(stringify(JObj(<<Codes("flights")>>, <<JStr(Codes("JFK"))>>)))
    /\ opened.lsToken = "pk.saved"
    /\ indexFlights = JArr(<<G1, GW>>)
    /\ indexToken = "pk.saved"

\* C15: with a valid share parameter the in-memory list is exactly the
\* imported list, the persisted list is overwritten with it and the query
\* string is removed.
C15_ValidShareReplaces ==
    \A list \in SharedLists :
        (Settled /\ opened.search = DataSearch(SharePayload(list))) =>
            /\ ipc = "idle"
            /\ indexFlights = JArr(list)
            /\ lsFlights = <<stringify(JArr(list))>>
            /\ search = <<>>

C15_Witness ==
    /\ ipc = "idle"
    /\ opened.search = DataSearch(SharePayload(<<G2, G4>>))
    /\ opened.lsFlights = <<stringify(JArr(<<G1, GW>>))>>
    /\ indexFlights = JArr(<<G2, G4>>)
    /\ lsFlights = <<stringify(JArr(<<G2, G4>>))>>
    /\ search = <<>>

\* C17: a corrupted persisted flight value (not JSON, or JSON that is not an
\* array, such as null or {}) counts as no saved data: after mount the
\* in-memory list is the empty list and the view has not crashed.
C17_CorruptedStorageIgnored ==
    ( /\ Settled
      /\ opened.lsFlights \in {<<text>> : text \in CorruptedTexts}
      /\ opened.search \in {<<>>} \cup BadSearches ) =>
        /\ ipc = "idle"
        /\ indexFlights = JArr(<<>>)

----------------------------------------------------------------------------
(* Properties of the flight store and its forms *)

Items == indexFlights.items

KnownCodes == {Codes("JFK"), Codes("LHR"), Codes("CDG")}

\* a submission the forms must reject
Rejected(fd) ==
    \/ \E field \in {fd.from, fd.to, fd.date, fd.aircraft, fd.airline} : field = <<>>
    \/ fd.from = fd.to
    \/ fd.from \notin KnownCodes
    \/ fd.to \notin KnownCodes

\* C16: a rejected add or edit submission changes neither the flight list nor
\* the persisted list, leaves the add form as typed (and the dialog open
\* with its flight), and calls neither onAddFlight nor onSave.
C16_RejectedSubmitNoChange ==
    [][ /\ (SubmitAdd /\ Rejected(formData)) =>
              /\ indexFlights' = indexFlights
              /\ lsFlights' = lsFlights
              /\ formData' = formData
              /\ called' = ""
              /\ toast' \notin {"", "Flight added successfully!"}
        /\ (SubmitEdit /\ Rejected(editFormData)) =>
              /\ indexFlights' = indexFlights
              /\ lsFlights' = lsFlights
              /\ editingFlight' = editingFlight
              /\ isEditDialogOpen'
              /\ called' = ""
              /\ toast' \notin {"", "Flight updated successfully!"} ]_vars

C16_Witness ==
    /\ toast = "Departure and arrival airports cannot be the same"
    /\ called = ""
    /\ ~isEditDialogOpen
    /\ formData.from = Codes("JFK")
    /\ formData.to = Codes("JFK")
    /\ Items = <<G1, GW>>
    /\ lsFlights = <<stringify(JArr(<<G1, GW>>))>>

\* C18: no two flights of the list have the same id.
C18_IdsUnique ==
    \A i \in 1..Len(Items) : \A j \in 1..Len(Items) :
        i # j => IdOf(Items[i]) # IdOf(Items[j])

\* C19: every flight of the list has an origin different from its destination.
C19_FromDiffersTo ==
    ipc = "idle" =>
        \A i \in 1..Len(Items) : Field(Items[i], "from") # Field(Items[i], "to")

\* C20: addFlight appends one record and keeps the others in place;
\* handleSaveEdit keeps length and order, replaces exactly the records with
\* the edited id by the updated record, whose id is the old one; deleteFlight
\* keeps every record with another id, in the same relative order.
C20_OperationsTouchOnlyTarget ==
    [][ /\ (SubmitAdd /\ called' = "onAddFlight") =>
              /\ Len(Items') = Len(Items) + 1
              /\ SubSeq(Items', 1, Len(Items)) = Items
              /\ IdOf(Items'[Len(Items')]) = JStr(Digits(now))
        /\ (SubmitEdit /\ called' = "onSave") =>
              /\ Len(Items') = Len(Items)
              /\ \A i \in 1..Len(Items) :
                    IF IdOf(Items[i]) = IdOf(editingFlight[1])
                    THEN /\ IdOf(Items'[i]) = IdOf(Items[i])
                         /\ FormOf(Items'[i]) = editFormData
                         /\ \A j \in 1..Len(Items) :
                               IdOf(Items[j]) = IdOf(Items[i]) => Items'[j] = Items'[i]
                    ELSE Items'[i] = Items[i]
        /\ DeleteFlight =>
              \E i \in 1..Len(Items) :
                  LET keep == {j \in 1..Len(Items) : IdOf(Items[j]) # IdOf(Items[i])}
                      Rank(j) == Cardinality({k \in keep : k <= j})
                  IN  /\ Len(Items') = Cardinality(keep)
                      /\ \A j \in keep : Items'[Rank(j)] = Items[j] ]_vars

C20_Witness ==
    /\ called = "onSave"
    /\ Len(Items) = 2
    /\ Items[1] = G1
    /\ IdOf(Items[2]) = IdOf(GW)
    /\ Field(Items[2], "from") = Codes("LHR")
    /\ Member(Items[2], Codes("distance")) = JNum(216 * 10000)

\* the fields of a flight that are fixed at creation and edit time
Geo(flight) ==
    <<Member(flight, Codes("distance")), Member(flight, Codes("fromCoords")),
      Member(flight, Codes("toCoords"))>>

\* distance and coordinates as the forms derive them from the airport table
GeoOf(fd) ==
    <<JNum(calculateDistance(airports(fd.from)[1], airports(fd.to)[1]) * 10000),
      Coords(airports(fd.from)[1]), Coords(airports(fd.to)[1])>>

\* C21: distance and coordinates of a flight come from the airport table when
\* the flight is added or edited, and no step changes them for any other
\* flight of the list: an add keeps the existing ones, a saved edit changes
\* those of one flight only, a delete and every other step change none.
C21_DistanceAndCoordsFixed ==
    [][ /\ (SubmitAdd /\ called' = "onAddFlight") =>
              /\ \A i \in 1..Len(Items) : Geo(Items'[i]) = Geo(Items[i])
              /\ Geo(Items'[Len(Items')]) = GeoOf(formData)
        /\ (SubmitEdit /\ called' = "onSave") =>
              /\ Cardinality({i \in 1..Len(Items) : Geo(Items'[i]) # Geo(Items[i])}) <= 1
              /\ \A i \in 1..Len(Items) :
                    Geo(Items'[i]) # Geo(Items[i]) => Geo(Items'[i]) = GeoOf(editFormData)
        /\ DeleteFlight =>
              \A j \in 1..Len(Items') : \E i \in 1..Len(Items) : Items'[j] = Items[i]
        /\ (Tick \/ TypeForm \/ OpenEdit \/ TypeEdit \/ CloseEdit) => Items' = Items ]_vars

C23_OwnLoadBeforeLayers ==
    /\ \A i \in 1..Len(ops) : IsLayerCall(ops[i]) => surfaces[ops[i].s].signals >= 1
    /\ Ready => surfaces[map].signals >= 1

\* C24: at most one map surface is alive at any time, and it is the one
\* map.current addresses; a surface is created only when every earlier one has
\* been removed, and after unmount no surface is alive.
C24_AtMostOneSurface ==
    /\ \A s \in 1..Len(surfaces) : surfaces[s].alive => s = map
    /\ \A s \in 1..Len(surfaces) : s < Len(surfaces) => ~surfaces[s].alive
    /\ pc = "gone" => NoneAlive(surfaces)

C24_Witness ==
    /\ pc = "gone"
    /\ Len(surfaces) = 2
    /\ NoneAlive(surfaces)
    /\ \E i \in 1..Len(ops) : ops[i] = Op("remove", 2, "", <<>>)

\* C25: loading the page never loses the persisted access token: once the
\* mount has settled, the persisted token is the token that was persisted
\* before the mount, whenever one was stored.
C25_TokenSurvivesMount ==
    (Settled /\ opened.lsToken # "") => lsToken = opened.lsToken

\* C26: the persisted flight list follows the in-memory list: whenever a
\* change (load, share import, add, edit, delete) has been processed, the
\* stored value is the JSON serialization of the current list; and a mount
\* with a valid persisted list and no share parameter ends with the same
\* text persisted as before.
C26_PersistedFollowsMemory ==
    [][ /\ ipc' = "idle" => lsFlights' = <<stringify(indexFlights')>>
        /\ (ipc = "mounted" /\ ipc' # ipc /\ opened.search = <<>> /\ opened.lsFlights # <<>>) =>
              /\ ipc' = "idle"
              /\ lsFlights' = opened.lsFlights ]_vars

C26_Witness ==
    /\ ipc = "idle"
    /\ opened.search = <<>>
    /\ opened.lsFlights # <<>>
    /\ Len(Items) = 1
    /\ lsFlights = <<stringify(JArr(<<GW>>))>>

\* C27: deleteFlight(id) removes exactly one flight when a flight with that
\* id is in the list, so the length decreases by exactly 1, and leaves the
\* list as it is when none has that id; handleSaveEdit replaces exactly one
\* record.
C27_ExactlyOneRecord ==
    [][ /\ DeleteFlight => Len(Items') = Len(Items) - 1
        /\ deleteFlight(Items, JStr(Digits(now + 1))) = Items
        /\ (SubmitEdit /\ called' = "onSave") =>
              Cardinality({i \in 1..Len(Items) : IdOf(Items[i]) = IdOf(editingFlight[1])}) = 1 ]_vars

\* the aircraft labels of the statistics inputs in dictionary order
AlphabeticalRank(label) ==
    CASE label = "Airbus A320" -> 1
      [] label = "ATR 72" -> 2
      [] label = "Boeing 777" -> 3
      [] label = "Concorde" -> 4

Labels(fl) == {fl[i].aircraft : i \in 1..Len(fl)}
CountOf(fl, label) == Cardinality({i \in 1..Len(fl) : fl[i].aircraft = label})

RECURSIVE SumTo(_, _)
SumTo(f, n) == IF n = 0 THEN 0 ELSE f[n] + SumTo(f, n - 1)

\* C28: the statistics are exact aggregates of the flight list: total flights
\* is its length, total distance the sum of the distance fields, aircraft
\* types the number of distinct aircraft labels; the breakdown lists every
\* distinct label once with the number of flights that carry it, the counts
\* add up to the length, and the entries are ordered by count descending, ties
\* alphabetically.
C28_StatisticsExact ==
    /\ projStats # <<>> =>
          /\ projStats[1].totalFlights = Len(projIn)
          /\ projStats[1].totalDistance = SumTo([i \in 1..Len(projIn) |-> projIn[i].distance], Len(projIn))
          /\ projStats[1].aircraftTypes = Cardinality(Labels(projIn))
    /\ projBreakdown # <<>> =>
          LET out == projBreakdown[1]
          IN  /\ Len(out) = Cardinality(Labels(projIn))
              /\ {out[i][1] : i \in 1..Len(out)} = Labels(projIn)
              /\ \A i \in 1..Len(out) : out[i][2] = CountOf(projIn, out[i][1])
              /\ SumTo([i \in 1..Len(out) |-> out[i][2]], Len(out)) = Len(projIn)
              /\ \A i \in 1..Len(out) : i < Len(out) =>
                    \/ out[i][2] > out[i + 1][2]
                    \/ /\ out[i][2] = out[i + 1][2]
                       /\ AlphabeticalRank(out[i][1]) < AlphabeticalRank(out[i + 1][1])

C28_Witness ==
    /\ projIn = <<F5, F1, F3>>
    /\ projStats = <<[totalFlights |-> 3, totalDistance |-> 10529, aircraftTypes |-> 2]>>
    /\ projBreakdown = << << <<"Boeing 777", 2>>, <<"ATR 72", 1>> >> >>

====
